---- MODULE Spec2Model ----
(***************************************************************************)
(* moto_gorod-notifier: the slot-discovery loop (internal/notifier), the   *)
(* dedup store (internal/storage), the subscriber list of the bot and the  *)
(* session-token handling of the YCLIENTS client.                          *)
(*                                                                         *)
(* Time is counted in days for the store (created_at, the 7-day window)    *)
(* and in units of 90 seconds for the session token.                       *)
(***************************************************************************)
EXTENDS Integers, Sequences, FiniteSets, TLC

(***************************************************************************)
(* Bounds of the model.                                                    *)
(***************************************************************************)
\* number of chats that talk to the bot
MaxChats == 2
\* last day the clock of the store reaches
MaxDays == 8
\* last time unit (90 seconds) the clock of the client reaches
MaxClock == 4
\* number of session tokens the provider issues
MaxLogins == 2
\* number of entries in the data array of a response
MaxEntries == 3
\* number of characters in the value of CHECK_INTERVAL_SECONDS
MaxEnvLen == 3

VARIABLES
    opts,          \* notifier.Options: ServiceIDs, LocationID, Timezone
    catalogue,     \* what the booking API can return: staff, dates, datetimes
    now,           \* time.Now(): the day, the time of day is HourOf(now)
    ctxDone,       \* the root context has been cancelled
    tickerC,       \* ticker.C, a channel of capacity 1: number of buffered ticks
    inFlight,      \* executions of checkAndNotify that have started and not returned
    n,             \* Notifier.Run / checkAndNotify: program counter and locals
    seen_slots,    \* table seen_slots: rows [slot_key, created_at]
    subscribers,   \* table subscribers: set of chat_id
    slot,          \* what has been done for the timeslot entry being processed
    sweep,         \* what has been done in the current tick
    watch,         \* the slot key whose history is followed from tick to tick
    clock,         \* time.Now() of the client, in units of 90 seconds
    userToken,     \* Client.userToken, "" when there is none
    tokenExp,      \* Client.tokenExp
    mu,            \* Client.mu: the goroutine holding Lock, the ones holding RLock
    issued,        \* number of session tokens the provider has issued
    call,          \* per goroutine: the listing call it is executing
    probe,         \* a direct call of a function: its arguments and result
    main           \* func main: where it is and what it has started

clientVars == <<clock, userToken, tokenExp, mu, issued, call>>

LoopVars == <<opts, catalogue, now, ctxDone, tickerC, inFlight, n,
              seen_slots, subscribers, slot, sweep, watch>>

vars == <<opts, catalogue, now, ctxDone, tickerC, inFlight, n,
          seen_slots, subscribers, slot, sweep, watch, clientVars, probe,
          main>>

Chats == 1..MaxChats

\* retention window of CleanOldSlots: 7 * 24 * time.Hour, in days
Retention == 7

(***************************************************************************)
(* Helpers.                                                                *)
(***************************************************************************)
RECURSIVE SortedSeq(_)
\* the elements of a set of integers in ascending order
SortedSeq(S) ==
    IF S = {} THEN <<>>
    ELSE LET m == CHOOSE x \in S : \A y \in S : x <= y
         IN  <<m>> \o SortedSeq(S \ {m})

RECURSIVE Bookable(_)
\* the lists a parse function can return for the entries of a response:
\* every entry is flagged is_bookable or not, the flagged ones are kept in
\* response order
Bookable(entries) ==
    IF entries = <<>> THEN {<<>>}
    ELSE LET rest == Bookable(Tail(entries))
         IN  rest \cup {<<Head(entries)>> \o r : r \in rest}

\* a listing call of the client returns (list, nil) or (nil, err)
Outcomes(entries) ==
    {[ok |-> FALSE, val |-> <<>>]} \cup
    {[ok |-> TRUE, val |-> s] : s \in Bookable(entries)}

\* with a cancelled context every HTTP call of the client fails
Listing(entries) ==
    IF ctxDone THEN {[ok |-> FALSE, val |-> <<>>]} ELSE Outcomes(entries)

Range(seq) == {seq[i] : i \in DOMAIN seq}

(***************************************************************************)
(* internal/notifier: buildKey.                                            *)
(***************************************************************************)
\* a key that leaves the staff member out
buildKeyNoStaff(serviceID, staffID, datetime) ==
    "svc=" \o ToString(serviceID) \o "|dt=" \o datetime

buildKey(serviceID, staffID, datetime) ==
    "svc=" \o ToString(serviceID) \o "|staff=" \o ToString(staffID)
           \o "|dt=" \o datetime

(***************************************************************************)
(* internal/storage: the statements of the seen_slots and subscribers      *)
(* tables.  Every method can also fail with a database error, which leaves *)
(* the table unchanged.                                                    *)
(***************************************************************************)
\* SELECT EXISTS(SELECT 1 FROM seen_slots WHERE slot_key = ?)
IsSlotSeen(table, slotKey) ==
    \E r \in table : r.slot_key = slotKey

\* an insert that reports success and stores nothing
MarkSlotSeenDropped(table, slotKey, at) == table

\* INSERT OR IGNORE INTO seen_slots (slot_key) VALUES (?)
\* created_at DEFAULT CURRENT_TIMESTAMP
MarkSlotSeen(table, slotKey, at) ==
    IF \E r \in table : r.slot_key = slotKey
    THEN table
    ELSE table \cup {[slot_key |-> slotKey, created_at |-> at]}

\* a plain INSERT: a row with the same key is a constraint violation
MarkSlotSeenErrorOnConflict(table, slotKey, fault) ==
    fault \/ \E r \in table : r.slot_key = slotKey

\* the error MarkSlotSeen returns: only a fault of the database, OR IGNORE
\* makes a row with the same key no error
MarkSlotSeenError(table, slotKey, fault) == fault

\* a delete that also takes the rows that are exactly olderThan old
CleanOldSlotsInclusive(table, olderThan, at) ==
    {r \in table : ~(r.created_at <= at - olderThan)}

\* DELETE FROM seen_slots WHERE created_at < now - olderThan
CleanOldSlots(table, olderThan, at) ==
    {r \in table : ~(r.created_at < at - olderThan)}

\* INSERT OR IGNORE INTO subscribers (chat_id) VALUES (?)
AddSubscriber(table, chatID) == table \cup {chatID}

\* DELETE FROM subscribers WHERE chat_id = ?
RemoveSubscriber(table, chatID) == table \ {chatID}

\* SELECT chat_id FROM subscribers LIMIT 1
GetSubscribersFirstRow(table) ==
    IF table = {} THEN <<>> ELSE <<SortedSeq(table)[1]>>

\* SELECT chat_id FROM subscribers (rowid order)
GetSubscribers(table) == SortedSeq(table)

(***************************************************************************)
(* Time zones and formatSlotMessage.  A location is [name, offset]: the     *)
(* abbreviation of the zone and its offset from UTC in hours.  An instant   *)
(* is a day and an hour of that day in UTC.                                 *)
(***************************************************************************)
\* the zones of the time zone database that are used here; none of them has
\* daylight saving time.  The empty name is UTC.
ZoneTable ==
    [name \in {"Europe/Moscow", "UTC", "", "Asia/Tokyo", "America/Bogota"} |->
        CASE name = "Europe/Moscow" -> [name |-> "MSK", offset |-> 3]
          [] name = "Asia/Tokyo" -> [name |-> "JST", offset |-> 9]
          [] name = "America/Bogota" -> [name |-> "-05", offset |-> -5]
          [] OTHER -> [name |-> "UTC", offset |-> 0]]

\* time.LoadLocation: the location, or an error for a name the database does
\* not have
LoadLocation(name) ==
    IF name \in DOMAIN ZoneTable
    THEN [err |-> FALSE, loc |-> ZoneTable[name]]
    ELSE [err |-> TRUE, loc |-> [name |-> "UTC", offset |-> 0]]

\* time.FixedZone(name, offset), the offset in hours
FixedZone(name, offset) == [name |-> name, offset |-> offset]

\* a fallback to UTC
FallbackZoneUTC == FixedZone("UTC", 0)

\* loc = time.FixedZone("UTC+3", 3*3600)
FallbackZone == FixedZone("UTC+3", 3)

\* loc, err := time.LoadLocation(n.opts.Timezone); if err != nil { loc = ... }
Location(o) ==
    LET r == LoadLocation(o.Timezone)
    IN  IF r.err THEN FallbackZone ELSE r.loc

\* the time of day, in UTC, at which time.Now() is read on day d: 02:00 on
\* the even days and 22:00 on the odd days
HourOf(d) == IF d % 2 = 0 THEN 2 ELSE 22

\* t.In(loc) of the instant (day, hour, min): the day, hour and minute on the
\* clock of the location
In(t, loc) ==
    LET h == t.hour + loc.offset
    IN  [day |-> IF h >= 24 THEN t.day + 1 ELSE IF h < 0 THEN t.day - 1
                 ELSE t.day,
         hour |-> (h + 24) % 24, min |-> t.min, zone |-> loc.name]

\* today := time.Now().In(loc).Format("2006-01-02"): the day on the calendar
\* of the location
Today(loc, d) == In([day |-> d, hour |-> HourOf(d), min |-> 0], loc).day

\* time.Parse(time.RFC3339, datetime) for the datetimes used here: the
\* instant in UTC, the days counted so that day 7 is Sunday 1 June 2025; any
\* other string is an error
RFC3339 ==
    [s \in {"2025-06-01T10:00:00+03:00", "2025-06-01T22:30:00+03:00"} |->
        IF s = "2025-06-01T10:00:00+03:00"
        THEN [day |-> 7, hour |-> 7, min |-> 0]
        ELSE [day |-> 7, hour |-> 19, min |-> 30]]

Parse(datetime) ==
    IF datetime \in DOMAIN RFC3339
    THEN [err |-> FALSE, t |-> RFC3339[datetime]]
    ELSE [err |-> TRUE, t |-> [day |-> 0, hour |-> 0, min |-> 0]]

\* the two digits of Format("15:04") and Format("02.01.2006")
Pad2(x) == IF x < 10 THEN "0" \o ToString(x) ELSE ToString(x)

\* tt.Format("02.01.2006") for the days around 1 June 2025
FormatDate(day) ==
    IF day < 7 THEN Pad2(25 + day) \o ".05.2025"
    ELSE Pad2(day - 6) \o ".06.2025"

\* tt.Format("15:04")
FormatClock(tt) == Pad2(tt.hour) \o ":" \o Pad2(tt.min)

\* tt.Weekday(): 0 is Sunday
Weekday(day) == day % 7

\* no message has been built
NoMsg == [StaffID |-> 0, Date |-> "", Time |-> "", Zone |-> "", Weekday |-> -1]

\* formatSlotMessage: the fields the template is rendered with.  A datetime
\* that parses is shown on the clock of the location, any other one is shown
\* as it is, without date, zone and weekday
formatSlotMessage(o, service, staff, dt) ==
    LET loc == Location(o)
        r == Parse(dt)
        tt == In(r.t, loc)
    IN  IF ~r.err
        THEN [StaffID |-> staff, Date |-> FormatDate(tt.day),
              Time |-> FormatClock(tt), Zone |-> tt.zone,
              Weekday |-> Weekday(tt.day)]
        ELSE [StaffID |-> staff, Date |-> "", Time |-> dt, Zone |-> "",
              Weekday |-> -1]

(***************************************************************************)
(* internal/notifier: the locals of checkAndNotify and the loop nest.      *)
(***************************************************************************)
\* the frame of Run while it waits in select
Idle ==
    [pc |-> "select", si |-> 0, staffIDs |-> <<>>, sj |-> 0,
     dates |-> <<>>, di |-> 0, times |-> <<>>, ti |-> 0,
     subs |-> <<>>, ci |-> 0, newSlotsFound |-> 0, totalChecks |-> 0,
     start |-> 0, loc |-> FixedZone("", 0), today |-> 0]

\* a loop that takes the services from the last one to the first one
serviceIDLastFirst(f) == opts.ServiceIDs[Len(opts.ServiceIDs) + 1 - f.si]

\* the loop variables: the element of the list the loop is at
serviceID(f) == opts.ServiceIDs[f.si]
staffID(f) == f.staffIDs[f.sj]
date(f) == f.dates[f.di]
\* a loop that reduces an RFC 3339 datetime to its time of day at UTC+3
datetimeNormalized(f) ==
    LET r == Parse(f.times[f.ti])
    IN  IF r.err THEN f.times[f.ti]
        ELSE FormatClock(In(r.t, FixedZone("UTC+3", 3)))

\* t of for _, t := range times: the string as the client returned it
datetime(f) == f.times[f.ti]
key(f) == buildKey(serviceID(f), staffID(f), datetime(f))

\* for _, serviceID := range n.opts.ServiceIDs: the next iteration, or the
\* statements after the loop
NextService(f) ==
    IF f.si < Len(opts.ServiceIDs)
    THEN [f EXCEPT !.pc = "staff", !.si = f.si + 1,
                   !.staffIDs = <<>>, !.sj = 0, !.dates = <<>>, !.di = 0,
                   !.times = <<>>, !.ti = 0, !.subs = <<>>, !.ci = 0]
    ELSE [f EXCEPT !.pc = "clean", !.si = 0,
                   !.staffIDs = <<>>, !.sj = 0, !.dates = <<>>, !.di = 0,
                   !.times = <<>>, !.ti = 0, !.subs = <<>>, !.ci = 0]

\* for _, staffID := range staffIDs
NextStaff(f) ==
    IF f.sj < Len(f.staffIDs)
    THEN [f EXCEPT !.pc = "dates", !.sj = f.sj + 1, !.dates = <<>>, !.di = 0,
                   !.times = <<>>, !.ti = 0, !.subs = <<>>, !.ci = 0]
    ELSE NextService(f)

\* for _, date := range dates
NextDate(f) ==
    IF f.di < Len(f.dates)
    THEN [f EXCEPT !.pc = "timeslots", !.di = f.di + 1,
                   !.times = <<>>, !.ti = 0, !.subs = <<>>, !.ci = 0]
    ELSE NextStaff(f)

\* for _, t := range times
NextSlot(f) ==
    IF f.ti < Len(f.times)
    THEN [f EXCEPT !.pc = "check", !.ti = f.ti + 1, !.subs = <<>>, !.ci = 0]
    ELSE NextDate(f)

\* the continue statements after a failed listing call
\* a return in the place of the continue: the tick ends without pruning
OnStaffErrorReturn(f) == Idle

OnStaffError(f) == NextService(f)

\* a break in the place of the continue: the remaining staff are dropped
OnDatesErrorBreak(f) == NextService(f)

OnDatesError(f) == NextStaff(f)

\* a return in the place of the continue: the remaining services are dropped
OnNoStaffReturn(f) == NextService([f EXCEPT !.si = Len(opts.ServiceIDs)])

\* if len(staffIDs) == 0 { continue }
OnNoStaff(f) == NextService(f)

\* a failed call taken for a response whose only entry is the date
OnTimeslotsErrorUseDate(f) ==
    [f EXCEPT !.pc = "check", !.times = <<f.dates[f.di]>>, !.ti = 1]

OnTimeslotsError(f) == NextDate(f)

\* a break in the place of the continue: the remaining entries are dropped
OnSeenErrorBreak(f) == NextDate(f)

\* the continue after a failed IsSlotSeen
OnSeenError(f) == NextSlot(f)

(***************************************************************************)
(* Bookkeeping of the calls made, used to state the properties.            *)
(***************************************************************************)
\* no timeslot entry is being processed
NoSlot ==
    [key |-> "", result |-> "none", marks |-> <<>>, markOK |-> FALSE,
     lookupOK |-> TRUE, table |-> {}, listed |-> <<>>, notified |-> <<>>,
     failed |-> {}, errors |-> 0, prevMark |-> -1, msg |-> NoMsg]

\* no call has been made in this tick
NoSweep ==
    [staffCalls |-> 0, datesCalls |-> 0, timesCalls |-> 0, failures |-> {},
     lastStaff |-> "none", guard |-> "none", clean |-> "none",
     storeFailures |-> {}, prev |-> "none", entries |-> 0, notSeen |-> 0,
     broadcasts |-> 0]

\* the history of the watched key: in the current and in the previous tick
\* "absent" (no IsSlotSeen for it), "clean" (examined, every store call for
\* it succeeded and its row is still there), "failed" (examined, a store
\* call for it failed) or "pruned" (its row was deleted by CleanOldSlots);
\* markedAt is the time of the last successful MarkSlotSeen, -1 if none;
\* unstored says that the last MarkSlotSeen for the key failed
NoWatch(k) ==
    [key |-> k, cur |-> "absent", prev |-> "absent", markedAt |-> -1,
     unstored |-> FALSE]

\* no function has been called directly
NoProbe == [fn |-> "none"]

Worse(a, b) == IF a = "failed" \/ b = "failed" THEN "failed" ELSE b

(***************************************************************************)
(* Notifier.Run: the select of the polling loop.                           *)
(***************************************************************************)
\* a loop that starts a tick whenever the ticker has fired
CanStartTickAnytime(f) == f.pc # "returned"

\* Run is a single goroutine: it takes the next tick only from its select
CanStartTick(f) == f.pc = "select"

\* case <-ctx.Done(): return
SelectDone ==
    /\ n.pc = "select"
    /\ ctxDone
    /\ n' = [Idle EXCEPT !.pc = "returned"]
    /\ UNCHANGED <<main, clientVars, probe, opts, catalogue, now, ctxDone, tickerC, inFlight,
                   seen_slots, subscribers, slot, sweep, watch>>

\* a guard that does not look at the location
ConfigIncompleteNoLocation(o) == Len(o.ServiceIDs) = 0

\* if len(n.opts.ServiceIDs) == 0 || n.opts.LocationID == 0 { return }
ConfigIncomplete(o) == Len(o.ServiceIDs) = 0 \/ o.LocationID = 0

\* case <-ticker.C: n.checkAndNotify(ctx), up to the first service; a tick
\* with an incomplete configuration returns at once, any other one reads the
\* time and resolves the location
SelectTick ==
    /\ CanStartTick(n)
    /\ tickerC = 1
    /\ tickerC' = 0
    /\ IF ConfigIncomplete(opts)
       THEN /\ n' = Idle
            /\ UNCHANGED inFlight
            /\ sweep' = [NoSweep EXCEPT !.guard = "skipped",
                                        !.prev = sweep.prev]
       ELSE /\ n' = NextService([Idle EXCEPT
                                     !.start = now,
                                     !.loc = Location(opts),
                                     !.today = Today(Location(opts), now)])
            /\ inFlight' = inFlight + 1
            /\ sweep' = [NoSweep EXCEPT !.guard = "passed",
                                        !.prev = sweep.prev]
    /\ slot' = NoSlot
    /\ UNCHANGED <<main, clientVars, probe, opts, catalogue, now, ctxDone, seen_slots, subscribers,
                   watch>>

(***************************************************************************)
(* checkAndNotify: the three listing calls.                                *)
(***************************************************************************)
\* staffIDs, err := n.yc.GetBookableStaffIDs(ctx, LocationID, serviceID)
ListStaff ==
    /\ n.pc = "staff"
    /\ \E r \in Listing(catalogue.staff) :
         /\ n' = IF ~r.ok THEN OnStaffError(n)
                 ELSE IF Len(r.val) = 0 THEN OnNoStaff(n)
                 ELSE NextStaff([n EXCEPT !.staffIDs = r.val, !.sj = 0])
         /\ sweep' = [sweep EXCEPT
                        !.staffCalls = @ + 1, !.datesCalls = 0,
                        !.failures = IF r.ok THEN @ ELSE @ \cup {"staff"},
                        !.lastStaff = IF ~r.ok THEN "err"
                                      ELSE IF Len(r.val) = 0 THEN "empty"
                                      ELSE "some"]
    /\ slot' = NoSlot
    /\ UNCHANGED <<main, clientVars, probe, opts, catalogue, now, ctxDone, tickerC, inFlight,
                   seen_slots, subscribers, watch>>

\* dates, err := n.yc.GetBookableDates(ctx, ..., today, farFuture, &sid)
ListDates ==
    /\ n.pc = "dates"
    /\ \E r \in Listing(catalogue.dates) :
         /\ n' = IF ~r.ok THEN OnDatesError(n)
                 ELSE NextDate([n EXCEPT !.dates = r.val, !.di = 0])
         /\ sweep' = [sweep EXCEPT
                        !.datesCalls = @ + 1, !.timesCalls = 0,
                        !.failures = IF r.ok THEN @ ELSE @ \cup {"dates"}]
    /\ slot' = NoSlot
    /\ UNCHANGED <<main, clientVars, probe, opts, catalogue, now, ctxDone, tickerC, inFlight,
                   seen_slots, subscribers, watch>>

\* times, err := n.yc.GetBookableTimeslots(ctx, ..., date, staffID)
ListTimeslots ==
    /\ n.pc = "timeslots"
    /\ \E r \in Listing(catalogue.datetimes) :
         /\ n' = IF ~r.ok THEN OnTimeslotsError(n)
                 ELSE NextSlot([n EXCEPT !.times = r.val, !.ti = 0])
         /\ sweep' = [sweep EXCEPT
                        !.timesCalls = @ + 1,
                        !.entries = IF r.ok THEN @ + Len(r.val) ELSE @,
                        !.failures = IF r.ok THEN @ ELSE @ \cup {"timeslots"}]
    /\ slot' = NoSlot
    /\ UNCHANGED <<main, clientVars, probe, opts, catalogue, now, ctxDone, tickerC, inFlight,
                   seen_slots, subscribers, watch>>

(***************************************************************************)
(* checkAndNotify: one timeslot entry.                                     *)
(***************************************************************************)
\* what the loop does with the answer of IsSlotSeen:
\* "err" / "seen" -> continue, "new" -> go on to MarkSlotSeen
\* a loop that does not look at the answer
AfterCheckIgnoringSeen(f, result) ==
    IF result # "err" THEN [f EXCEPT !.pc = "mark"] ELSE NextSlot(f)

AfterCheck(f, result) ==
    IF result = "new" THEN [f EXCEPT !.pc = "mark"]
    ELSE IF result = "err" THEN OnSeenError(f)
    ELSE NextSlot(f)

\* totalChecks++; key := buildKey(...); seen, err := n.storage.IsSlotSeen(key)
CheckSlot ==
    /\ n.pc = "check"
    /\ \E err \in BOOLEAN :
         LET result == IF err THEN "err"
                       ELSE IF IsSlotSeen(seen_slots, key(n)) THEN "seen"
                       ELSE "new"
             f == [n EXCEPT !.totalChecks = @ + 1]
         IN  /\ n' = AfterCheck(f, result)
             /\ slot' = [NoSlot EXCEPT
                           !.key = key(n), !.result = result,
                           !.errors = IF err THEN 1 ELSE 0,
                           !.prevMark = IF key(n) = watch.key
                                        THEN watch.markedAt ELSE -1]
             /\ watch' = IF key(n) # watch.key THEN watch
                         ELSE [watch EXCEPT
                                 !.cur = IF err THEN "failed"
                                         ELSE IF result = "new"
                                              THEN Worse(@, "absent")
                                         ELSE Worse(@, "clean")]
             /\ sweep' = [sweep EXCEPT
                            !.notSeen = IF result = "new" THEN @ + 1 ELSE @,
                            !.storeFailures =
                                IF err THEN @ \cup {"seen"} ELSE @]
    /\ UNCHANGED <<main, clientVars, probe, opts, catalogue, now, ctxDone, tickerC, inFlight,
                   seen_slots, subscribers>>

\* a loop that drops the entry when it cannot be marked
AfterMarkSkipOnError(f, err) ==
    IF err THEN NextSlot(f)
    ELSE [f EXCEPT !.pc = "subscribers", !.newSlotsFound = @ + 1]

\* a failed MarkSlotSeen is only logged: newSlotsFound++ and the broadcast
\* follow in either case
AfterMark(f, err) ==
    [f EXCEPT !.pc = "subscribers", !.newSlotsFound = @ + 1]

\* if err := n.storage.MarkSlotSeen(key); err != nil { log }; newSlotsFound++
MarkSlot ==
    /\ n.pc = "mark"
    /\ \E err \in BOOLEAN :
         /\ seen_slots' = IF err THEN seen_slots
                          ELSE MarkSlotSeen(seen_slots, key(n), now)
         /\ slot' = [slot EXCEPT !.marks = Append(@, key(n)),
                                 !.markOK = ~MarkSlotSeenError(seen_slots,
                                                               key(n), err),
                                 !.errors = IF err THEN @ + 1 ELSE @]
         /\ watch' = IF key(n) # watch.key THEN watch
                     ELSE IF MarkSlotSeenError(seen_slots, key(n), err)
                          THEN [watch EXCEPT !.cur = "failed",
                                             !.unstored = TRUE]
                     ELSE [watch EXCEPT !.cur = Worse(@, "clean"),
                                        !.markedAt = now,
                                        !.unstored = FALSE]
         /\ sweep' = [sweep EXCEPT !.storeFailures =
                         IF err THEN @ \cup {"mark"} ELSE @]
         /\ n' = AfterMark(n, err)
    /\ UNCHANGED <<main, clientVars, probe, opts, catalogue, now, ctxDone, tickerC, inFlight,
                   subscribers>>

\* Bot.Subscribers: the rows of the table, or the empty list when
\* GetSubscribers fails
Subscribers(table, err) == IF err THEN <<>> ELSE GetSubscribers(table)

\* msg := n.formatSlotMessage(...); subscribers := n.bot.Subscribers()
ReadSubscribers ==
    /\ n.pc = "subscribers"
    /\ \E err \in BOOLEAN :
         LET list == Subscribers(subscribers, err)
         IN  /\ n' = [n EXCEPT !.subs = list, !.ci = 1,
                               !.pc = IF Len(list) = 0 THEN "notified"
                                      ELSE "notify"]
             /\ slot' = [slot EXCEPT
                           !.lookupOK = ~err, !.listed = list,
                           !.table = subscribers,
                           !.msg = formatSlotMessage(opts, serviceID(n),
                                                     staffID(n), datetime(n))]
             /\ sweep' = [sweep EXCEPT
                            !.broadcasts = @ + 1,
                            !.storeFailures =
                                IF err THEN @ \cup {"lookup"} ELSE @]
    /\ UNCHANGED <<main, clientVars, probe, opts, catalogue, now, ctxDone, tickerC, inFlight,
                   seen_slots, subscribers, watch>>

\* a loop that gives up at the first failed delivery
AfterNotifyStopOnError(f, err) ==
    IF ~err /\ f.ci < Len(f.subs) THEN [f EXCEPT !.ci = f.ci + 1]
    ELSE [f EXCEPT !.pc = "notified"]

\* the loop over the subscribers after one Notify: the error is only logged
AfterNotify(f, err) ==
    IF f.ci < Len(f.subs) THEN [f EXCEPT !.ci = f.ci + 1]
    ELSE [f EXCEPT !.pc = "notified"]

\* if err := n.bot.Notify(chatID, msg); err != nil { log }
NotifyOne ==
    /\ n.pc = "notify"
    /\ \E err \in BOOLEAN :
         /\ n' = AfterNotify(n, err)
         /\ slot' = [slot EXCEPT
                       !.notified = Append(@, n.subs[n.ci]),
                       !.failed = IF err THEN @ \cup {n.subs[n.ci]} ELSE @,
                       !.errors = IF err THEN @ + 1 ELSE @]
         /\ sweep' = [sweep EXCEPT !.storeFailures =
                         IF err THEN @ \cup {"notify"} ELSE @]
    /\ UNCHANGED <<main, clientVars, probe, opts, catalogue, now, ctxDone, tickerC, inFlight,
                   seen_slots, subscribers, watch>>

\* the log line "Notified subscribers about new slot", then the next entry
LogNotified ==
    /\ n.pc = "notified"
    /\ n' = NextSlot(n)
    /\ slot' = NoSlot
    /\ UNCHANGED <<main, clientVars, probe, opts, catalogue, now, ctxDone, tickerC, inFlight,
                   seen_slots, subscribers, sweep, watch>>

\* a tick that ends the loop when the pruning fails
AfterCleanExitOnError(err) ==
    IF err THEN [Idle EXCEPT !.pc = "returned"] ELSE Idle

\* a failed CleanOldSlots is logged; checkAndNotify returns to the select
AfterClean(err) == Idle

\* n.storage.CleanOldSlots(7 * 24 * time.Hour), the final log line, return
Clean ==
    /\ n.pc = "clean"
    /\ \E err \in BOOLEAN :
         /\ seen_slots' = IF err THEN seen_slots
                          ELSE CleanOldSlots(seen_slots, Retention, now)
         /\ watch' = [watch EXCEPT
                        !.cur = "absent",
                        !.prev = IF watch.cur = "absent" THEN "absent"
                                 ELSE IF /\ IsSlotSeen(seen_slots, watch.key)
                                         /\ ~IsSlotSeen(seen_slots', watch.key)
                                 THEN "pruned"
                                 ELSE watch.cur]
         /\ sweep' = [NoSweep EXCEPT
                        !.clean = IF err THEN "err" ELSE "ok",
                        !.prev = IF err \/ sweep.failures # {}
                                        \/ sweep.storeFailures # {}
                                 THEN "errors" ELSE "clean"]
         /\ n' = AfterClean(err)
    /\ inFlight' = inFlight - 1
    /\ slot' = NoSlot
    /\ UNCHANGED <<main, clientVars, probe, opts, catalogue, now, ctxDone, tickerC, subscribers>>

(***************************************************************************)
(* The environment of the loop.                                            *)
(***************************************************************************)
\* the ticker delivers a tick; a tick that finds the buffer full is dropped
TickerFires ==
    /\ n.pc # "returned"
    /\ tickerC = 0
    /\ tickerC' = 1
    /\ UNCHANGED <<main, clientVars, probe, opts, catalogue, now, ctxDone, inFlight, n,
                   seen_slots, subscribers, slot, sweep, watch>>

\* SIGINT / SIGTERM cancels the root context
Cancel ==
    /\ ~ctxDone
    /\ ctxDone' = TRUE
    /\ UNCHANGED <<main, clientVars, probe, opts, catalogue, now, tickerC, inFlight, n,
                   seen_slots, subscribers, slot, sweep, watch>>

\* a day passes
DayPasses ==
    /\ now < MaxDays
    /\ now' = now + 1
    /\ UNCHANGED <<main, clientVars, probe, opts, catalogue, ctxDone, tickerC, inFlight, n,
                   seen_slots, subscribers, slot, sweep, watch>>

\* Bot.handleMessage, "start" or the subscribe button: b.addSubscriber
BotSubscribe ==
    /\ \E chatID \in Chats :
         /\ chatID \notin subscribers
         /\ subscribers' = AddSubscriber(subscribers, chatID)
    /\ UNCHANGED <<main, clientVars, probe, opts, catalogue, now, ctxDone, tickerC, inFlight, n,
                   seen_slots, slot, sweep, watch>>

\* Bot.handleMessage, "stop" or the unsubscribe button: b.removeSubscriber
BotUnsubscribe ==
    /\ \E chatID \in Chats :
         /\ chatID \in subscribers
         /\ subscribers' = RemoveSubscriber(subscribers, chatID)
    /\ UNCHANGED <<main, clientVars, probe, opts, catalogue, now, ctxDone, tickerC, inFlight, n,
                   seen_slots, slot, sweep, watch>>

(***************************************************************************)
(* yclients.Client: one listing call (GetBookableStaffIDs, GetBookableDates *)
(* or GetBookableTimeslots) of a goroutine, through makeRequest, getToken  *)
(* and authenticate.                                                       *)
(***************************************************************************)
\* the tick of the notifier and the current-slots handler of the bot share
\* one client
Goroutines == {"tick", "current"}

None == "none"

\* authenticate sets tokenExp 4 minutes 30 seconds ahead; the clock of the
\* client counts units of 90 seconds
TokenTTL == 3

\* the goroutine is not inside a listing call
NoCall ==
    [pc |-> "idle", token |-> "", exp |-> 0, lockAt |-> -1, authAt |-> -1,
     sentAt |-> -1, logins |-> 0, requests |-> 0, login |-> None,
     listing |-> None, result |-> None, sawLogin |-> FALSE, header |-> "",
     auth |-> None]

\* what c.http.Do returns: a transport error, or a response with a status
\* and a body
HTTPResults ==
    {[err |-> TRUE, status |-> 0, body |-> None]} \cup
    {[err |-> FALSE, status |-> st, body |-> b] :
        st \in {200, 201, 401}, b \in {"good", "unparsable", "unsuccessful"}}

HTTPDo == IF ctxDone THEN {[err |-> TRUE, status |-> 0, body |-> None]}
          ELSE HTTPResults

\* the n-th user_token of the provider
Token(k) == "user" \o ToString(k)

\* a comparison that lets a token pass at the instant it expires
NotAfter(t, u) == t <= u

\* time.Time.Before
Before(t, u) == t < u

\* a lock that does not exclude
CanLockAlways(m) == TRUE

\* sync.RWMutex.Lock can be taken when nobody holds the mutex
CanLock(m) == m.writer = None /\ m.readers = {}

\* sync.RWMutex.RLock can be taken when no writer holds the mutex
CanRLock(m) == m.writer = None

\* Client.partnerToken
PartnerToken == "partner"

\* makeRequest: the Authorization header for the token getToken returned
Authorization(partner, token) ==
    IF token # "" THEN "Bearer " \o partner \o ", User " \o token
    ELSE "Bearer " \o partner

\* authResp.Data.UserToken: the k-th token of the provider in a good body,
\* no token in any other body
UserToken(r, k) == IF r.body = "good" THEN Token(k) ELSE ""

\* a login that is accepted without looking for success and a user_token
LoginOKWithoutToken(r) == ~r.err /\ r.status = 201 /\ r.body # "unparsable"

\* authenticate accepts the login: status 201, a body that parses, success
\* and a non-empty user_token
LoginOK(r) == ~r.err /\ r.status = 201 /\ r.body = "good"

\* a check that accepts every status
StatusOKAny(status) == TRUE

\* makeRequest: resp.StatusCode < 200 || resp.StatusCode >= 300 is an error
StatusOK(status) == status >= 200 /\ status < 300

\* the listing call succeeds: no transport error, a 2xx status and a body
\* that the parse function accepts
ListingOK(r) == ~r.err /\ StatusOK(r.status) /\ r.body # "unparsable"

\* GetBookable...: build the payload, makeRequest up to c.getToken(ctx)
CallStart(g) ==
    /\ call[g].pc = "idle"
    /\ call' = [call EXCEPT ![g] = [NoCall EXCEPT !.pc = "lock"]]
    /\ UNCHANGED <<clock, userToken, tokenExp, mu, issued>>

\* authenticate: c.mu.Lock(); if time.Now().Before(c.tokenExp) return nil
\* (with the deferred Unlock); otherwise the login request is sent
AuthEnter(g) ==
    /\ call[g].pc = "lock"
    /\ CanLock(mu)
    /\ IF Before(clock, tokenExp)
       THEN /\ call' = [call EXCEPT ![g].pc = "rlock", ![g].lockAt = clock,
                                    ![g].authAt = clock]
            /\ UNCHANGED mu
       ELSE /\ call' = [call EXCEPT ![g].pc = "login", ![g].lockAt = clock,
                                    ![g].logins = @ + 1]
            /\ mu' = [mu EXCEPT !.writer = g]
    /\ UNCHANGED <<clock, userToken, tokenExp, issued>>

\* what authenticate finds in the answer to the login request
AuthAnswer(r) ==
    IF r.err THEN "transport"
    ELSE IF r.status # 201 THEN "status"
    ELSE IF r.body = "unparsable" THEN "parse"
    ELSE IF r.body = "unsuccessful" THEN "unsuccessful"
    ELSE "ok"

\* authenticate: the answer to the login request; on success the token and
\* tokenExp = time.Now() + 4m30s are stored; the deferred Unlock
LoginReturns(g) ==
    /\ call[g].pc = "login"
    /\ \E r \in HTTPDo :
         /\ LoginOK(r) => issued < MaxLogins
         /\ IF LoginOK(r)
            THEN /\ userToken' = UserToken(r, issued + 1)
                 /\ tokenExp' = clock + TokenTTL
                 /\ issued' = issued + 1
                 /\ call' = [h \in Goroutines |->
                               IF h = g
                               THEN [call[g] EXCEPT !.pc = "rlock",
                                                    !.authAt = clock,
                                                    !.login = "ok",
                                                    !.auth = AuthAnswer(r)]
                               ELSE IF call[h].pc = "lock"
                               THEN [call[h] EXCEPT !.sawLogin = TRUE]
                               ELSE call[h]]
            ELSE /\ call' = [call EXCEPT ![g].pc = "done",
                                         ![g].login = "failed",
                                         ![g].auth = AuthAnswer(r),
                                         ![g].result = "err"]
                 /\ UNCHANGED <<userToken, tokenExp, issued>>
    /\ mu' = [mu EXCEPT !.writer = None]
    /\ UNCHANGED clock

\* getToken: c.mu.RLock()
RLock(g) ==
    /\ call[g].pc = "rlock"
    /\ CanRLock(mu)
    /\ mu' = [mu EXCEPT !.readers = @ \cup {g}]
    /\ call' = [call EXCEPT ![g].pc = "rlocked"]
    /\ UNCHANGED <<clock, userToken, tokenExp, issued>>

\* getToken: return c.userToken, nil with the deferred RUnlock
RUnlock(g) ==
    /\ call[g].pc = "rlocked"
    /\ mu' = [mu EXCEPT !.readers = @ \ {g}]
    /\ call' = [call EXCEPT ![g].pc = "send", ![g].token = userToken,
                            ![g].exp = tokenExp]
    /\ UNCHANGED <<clock, userToken, tokenExp, issued>>

\* makeRequest: the headers are set and c.http.Do(req) sends the request
Send(g) ==
    /\ call[g].pc = "send"
    /\ call' = [call EXCEPT ![g].pc = "wait", ![g].sentAt = clock,
                            ![g].requests = @ + 1,
                            ![g].header = Authorization(PartnerToken,
                                                        call[g].token)]
    /\ UNCHANGED <<clock, userToken, tokenExp, mu, issued>>

\* makeRequest: the answer to the listing request, and the parse function
ListingReturns(g) ==
    /\ call[g].pc = "wait"
    /\ \E r \in HTTPDo :
         call' = [call EXCEPT
                    ![g].pc = "done",
                    ![g].listing = IF r.err THEN "transport"
                                   ELSE IF r.status < 200 \/ r.status >= 300
                                        THEN "status"
                                   ELSE IF r.body = "unparsable" THEN "parse"
                                   ELSE "ok",
                    ![g].result = IF ListingOK(r) THEN "ok" ELSE "err"]
    /\ UNCHANGED <<clock, userToken, tokenExp, mu, issued>>

\* the listing call returns to its caller
CallReturn(g) ==
    /\ call[g].pc = "done"
    /\ call' = [call EXCEPT ![g] = NoCall]
    /\ UNCHANGED <<clock, userToken, tokenExp, mu, issued>>

\* 90 seconds pass
TimePasses ==
    /\ clock < MaxClock
    /\ clock' = clock + 1
    /\ UNCHANGED <<userToken, tokenExp, mu, issued, call>>

\* a client as yclients.New returns it
InitClient ==
    /\ clock = 0
    /\ userToken = ""
    /\ tokenExp = 0
    /\ mu = [writer |-> None, readers |-> {}]
    /\ issued = 0
    /\ call = [g \in Goroutines |-> NoCall]

(***************************************************************************)
(* yclients: the parse functions.  A response is [ok, data]: ok says that   *)
(* json.Unmarshal accepts the body, data is the array of entries.  An id is *)
(* a sequence of characters.                                               *)
(***************************************************************************)
DecimalDigits == {"0", "1", "2", "3", "4", "5", "6", "7", "8", "9"}

DigitValue(c) ==
    CASE c = "0" -> 0 [] c = "1" -> 1 [] c = "2" -> 2 [] c = "3" -> 3
      [] c = "4" -> 4 [] c = "5" -> 5 [] c = "6" -> 6 [] c = "7" -> 7
      [] c = "8" -> 8 [] c = "9" -> 9

RECURSIVE SkipSpace(_)
\* fmt: the input without its leading spaces
SkipSpace(chars) ==
    IF chars # <<>> /\ Head(chars) = " " THEN SkipSpace(Tail(chars))
    ELSE chars

RECURSIVE ScanNumber(_)
\* fmt: the longest prefix made of decimal digits and underscores
ScanNumber(chars) ==
    IF chars # <<>> /\ Head(chars) \in DecimalDigits \cup {"_"}
    THEN <<Head(chars)>> \o ScanNumber(Tail(chars))
    ELSE <<>>

RECURSIVE ParseDigits(_, _)
\* strconv.ParseInt on a token of decimal digits
ParseDigits(tok, acc) ==
    IF tok = <<>> THEN acc
    ELSE ParseDigits(Tail(tok), 10 * acc + DigitValue(Head(tok)))

\* fmt.Sscanf(id, "%d", &sid): leading spaces are skipped, a sign is
\* accepted, then the longest run of digits is read; what follows the run is
\* left unread and is no error
Sscanf(chars) ==
    LET in == SkipSpace(chars)
        signed == in # <<>> /\ Head(in) \in {"+", "-"}
        tok == ScanNumber(IF signed THEN Tail(in) ELSE in)
    IN  IF tok = <<>> \/ "_" \in Range(tok)
        THEN [ok |-> FALSE, val |-> 0]
        ELSE [ok |-> TRUE,
              val |-> IF signed /\ Head(in) = "-"
                      THEN 0 - ParseDigits(tok, 0) ELSE ParseDigits(tok, 0)]

RECURSIVE StaffIDsOf(_)
\* parseStaffIDs: the loop over resp.Data
StaffIDsOf(data) ==
    IF data = <<>> THEN <<>>
    ELSE LET it == Head(data)
             r == Sscanf(it.id)
         IN  IF ~it.is_bookable \/ ~r.ok THEN StaffIDsOf(Tail(data))
             ELSE <<r.val>> \o StaffIDsOf(Tail(data))

parseStaffIDs(resp) ==
    IF ~resp.ok THEN [ok |-> FALSE, val |-> <<>>]
    ELSE [ok |-> TRUE, val |-> StaffIDsOf(resp.data)]

\* the responses with at most k entries taken from a set
RECURSIVE SeqsUpTo(_, _)
SeqsUpTo(S, k) ==
    IF k = 0 THEN {<<>>}
    ELSE LET shorter == SeqsUpTo(S, k - 1)
         IN  shorter \cup {Append(q, x) : q \in shorter, x \in S}

Responses(entries) ==
    {[ok |-> FALSE, data |-> <<>>]} \cup
    {[ok |-> TRUE, data |-> d] : d \in SeqsUpTo(entries, MaxEntries)}

\* ids as the API sends them and malformed ones
StaffIDStrings ==
    {<<"4", "2">>, <<"7">>, <<"-", "5">>, <<>>, <<"a", "b">>,
     <<"1", "2", "a">>, <<" ", "7">>, <<"1", "_", "0">>}

StaffEntries ==
    {[id |-> i, is_bookable |-> b] : i \in StaffIDStrings, b \in BOOLEAN}

\* a parser that prefers the bare time
BestAvailableTimeFirst(it) ==
    IF it.time # "" THEN it.time ELSE it.datetime

\* parseTimeslots: Datetime when it is not empty, otherwise Time
BestAvailable(it) ==
    IF it.datetime # "" THEN it.datetime ELSE it.time

RECURSIVE TimeslotsOf(_)
\* parseTimeslots: the loop over resp.Data
TimeslotsOf(data) ==
    IF data = <<>> THEN <<>>
    ELSE LET it == Head(data)
         IN  IF it.is_bookable /\ BestAvailable(it) # ""
             THEN <<BestAvailable(it)>> \o TimeslotsOf(Tail(data))
             ELSE TimeslotsOf(Tail(data))

parseTimeslots(resp) ==
    IF ~resp.ok THEN [ok |-> FALSE, val |-> <<>>]
    ELSE [ok |-> TRUE, val |-> TimeslotsOf(resp.data)]

TimeslotEntries ==
    {[datetime |-> dt, time |-> t, is_bookable |-> b] :
        dt \in {"", "2025-06-01T10:00:00+03:00"},
        t \in {"", "10:00", "11:00"}, b \in BOOLEAN}

CallParseTimeslots ==
    /\ probe = NoProbe
    /\ \E resp \in Responses(TimeslotEntries) :
         probe' = [fn |-> "parseTimeslots", args |-> resp,
                   out |-> parseTimeslots(resp)]
    /\ UNCHANGED <<main, clientVars, opts, catalogue, now, ctxDone, tickerC,
                   inFlight, n, seen_slots, subscribers, slot, sweep, watch>>

CallParseStaffIDs ==
    /\ probe = NoProbe
    /\ \E resp \in Responses(StaffEntries) :
         probe' = [fn |-> "parseStaffIDs", args |-> resp,
                   out |-> parseStaffIDs(resp)]
    /\ UNCHANGED <<main, clientVars, opts, catalogue, now, ctxDone, tickerC,
                   inFlight, n, seen_slots, subscribers, slot, sweep, watch>>

(***************************************************************************)
(* The polling interval: config.Load, notifier.New and the ticker of Run.   *)
(* A time.Duration and an int are two's complement integers; here they are  *)
(* IntBits wide instead of 64, and a Duration counts units of 1/Second of   *)
(* a second instead of nanoseconds, so that 60 seconds fit and the product  *)
(* of Load wraps for the larger numbers that Atoi accepts.                  *)
(***************************************************************************)
IntBits == 12

Second == 16

MaxInt == 2 ^ (IntBits - 1) - 1

\* the value of an arithmetic result in IntBits bits
Wrap(x) ==
    LET m == x % (2 ^ IntBits)
    IN  IF m > MaxInt THEN m - 2 ^ IntBits ELSE m

RECURSIVE DropTrailingSpace(_)
DropTrailingSpace(chars) ==
    IF chars # <<>> /\ chars[Len(chars)] = " "
    THEN DropTrailingSpace(SubSeq(chars, 1, Len(chars) - 1))
    ELSE chars

\* strings.TrimSpace
TrimSpace(chars) == DropTrailingSpace(SkipSpace(chars))

\* strconv.Atoi: an optional sign and then decimal digits only, at least
\* one; a value outside the range of int is an error
Atoi(chars) ==
    LET signed == chars # <<>> /\ Head(chars) \in {"+", "-"}
        tok == IF signed THEN Tail(chars) ELSE chars
    IN  IF tok = <<>> \/ ~(Range(tok) \subseteq DecimalDigits)
        THEN [err |-> TRUE, val |-> 0]
        ELSE LET v == ParseDigits(tok, 0)
             IN  IF v > MaxInt THEN [err |-> TRUE, val |-> MaxInt]
                 ELSE [err |-> FALSE,
                       val |-> IF signed /\ Head(chars) = "-" THEN 0 - v
                               ELSE v]

\* config.Load: PollInterval is 60 seconds unless CHECK_INTERVAL_SECONDS,
\* trimmed, is a number above zero
PollInterval(env) ==
    LET s == TrimSpace(env)
        r == Atoi(s)
    IN  IF s # <<>> /\ ~r.err /\ r.val > 0 THEN Wrap(r.val * Second)
        ELSE 60 * Second

\* a constructor that keeps the interval it is given
NewKeepsInterval(interval) == interval

\* notifier.New: if opts.Interval <= 0 { opts.Interval = 30 * time.Second }
New(interval) == IF interval <= 0 THEN 30 * Second ELSE interval

\* os.Getenv("CHECK_INTERVAL_SECONDS"): "" when the variable is not set
EnvChars == {" ", "-", "0", "2", "5", "6", "x"}

Getenv == SeqsUpTo(EnvChars, MaxEnvLen)

\* cfg, err := config.Load()
CallLoad ==
    /\ probe.fn = "interval"
    /\ probe.at = "env"
    /\ probe' = [probe EXCEPT !.at = "loaded",
                              !.cfg = PollInterval(probe.env)]
    /\ UNCHANGED <<main, clientVars, LoopVars>>

\* n := notifier.New(tg, yc, notifier.Options{Interval: cfg.PollInterval, ...})
CallNew ==
    /\ probe.fn = "interval"
    /\ probe.at = "loaded"
    /\ probe' = [probe EXCEPT !.at = "new", !.opts = New(probe.cfg)]
    /\ UNCHANGED <<main, clientVars, LoopVars>>

\* Run: ticker := time.NewTicker(n.opts.Interval)
CallNewTicker ==
    /\ probe.fn = "interval"
    /\ probe.at = "new"
    /\ probe' = [probe EXCEPT !.at = "run", !.ticker = probe.opts]
    /\ UNCHANGED <<main, clientVars, LoopVars>>

(***************************************************************************)
(* internal/bot: handleMessage and the subscribers table.  The rows of the  *)
(* table are kept in the order of their insertion; chat_id is the primary   *)
(* key.  The captions of the buttons are written in Latin letters.          *)
(***************************************************************************)
CurrentButton == "[calendar] Tekushchie sloty"

BookingButton == "[memo] Zapisatsya"

SubscribeButton == "[bell] Podpisatsya"

UnsubscribeButton == "[no bell] Otpisatsya"

\* msg.Text of the messages a chat sends
Texts ==
    {"/start", "/stop", "/current", "/help", "start", "hello",
     CurrentButton, BookingButton, SubscribeButton, UnsubscribeButton}

\* msg.Command(): the name of the command, "" when msg.IsCommand() is false
Command(text) ==
    CASE text = "/start" -> "start"
      [] text = "/stop" -> "stop"
      [] text = "/current" -> "current"
      [] text = "/help" -> "help"
      [] OTHER -> ""

\* handleMessage: the switch on the command, or else the switch on the text
handleMessage(text) ==
    IF Command(text) # ""
    THEN CASE Command(text) = "start" -> "addSubscriber"
           [] Command(text) = "current" -> "handleCurrentSlots"
           [] Command(text) = "stop" -> "removeSubscriber"
           [] OTHER -> "sendHelpMessage"
    ELSE CASE text = CurrentButton -> "handleCurrentSlots"
           [] text = BookingButton -> "handleBooking"
           [] text = SubscribeButton -> "addSubscriber"
           [] text = UnsubscribeButton -> "removeSubscriber"
           [] OTHER -> "sendHelpMessage"

\* INSERT OR IGNORE INTO subscribers (chat_id) VALUES (?)
InsertOrIgnore(rows, chatID) ==
    IF chatID \in Range(rows) THEN rows ELSE Append(rows, chatID)

\* DELETE FROM subscribers WHERE chat_id = ?
Delete(rows, chatID) == SelectSeq(rows, LAMBDA c : c # chatID)

\* the table after the handler chosen for a message; err is the error of
\* db.Exec, which addSubscriber and removeSubscriber log
AfterMessage(rows, chatID, text, err) ==
    CASE handleMessage(text) = "addSubscriber" /\ ~err ->
             InsertOrIgnore(rows, chatID)
      [] handleMessage(text) = "removeSubscriber" /\ ~err ->
             Delete(rows, chatID)
      [] OTHER -> rows

\* what a message asks for, by its text
Asks(text) ==
    CASE text \in {"/start", SubscribeButton} -> "subscribe"
      [] text \in {"/stop", UnsubscribeButton} -> "unsubscribe"
      [] OTHER -> "none"

\* Bot.Run: case upd := <-updates: b.handleMessage(upd.Message).  probe
\* keeps the rows of the table, the last subscribe or unsubscribe of every
\* chat, and the message handled last with the table before it
BotMessage ==
    /\ probe.fn = "bot"
    /\ \E chatID \in Chats, text \in Texts, err \in BOOLEAN :
         LET rows == AfterMessage(probe.rows, chatID, text, err)
         IN  /\ probe' = [probe EXCEPT
                   !.rows = rows,
                   !.before = probe.rows,
                   !.msg = [chat |-> chatID, text |-> text, err |-> err],
                   !.asked[chatID] = IF Asks(text) = "none" THEN @
                                     ELSE Asks(text)]
             /\ subscribers' = Range(rows)
    /\ UNCHANGED <<main, clientVars, opts, catalogue, now, ctxDone, tickerC,
                   inFlight, n, seen_slots, slot, sweep, watch>>

(***************************************************************************)
(* func main.  main is [pc, exit, selfCheck, storage, components,           *)
(* botReturned, timer]: exit is "none" while the process runs, "exit1"      *)
(* after os.Exit(1), "graceful" or "forced" after main has returned.        *)
(***************************************************************************)
\* main at its first statement
MainAtStart ==
    [pc |-> "load", exit |-> "none", selfCheck |-> "none",
     storage |-> FALSE, components |-> {}, botReturned |-> FALSE,
     timer |-> "off"]

\* main blocked in <-ctx.Done() with both goroutines started
MainStarted(o) ==
    [MainAtStart EXCEPT
        !.pc = "wait",
        !.selfCheck = IF Len(o.ServiceIDs) > 0 THEN "ok" ELSE "skipped",
        !.storage = TRUE, !.components = {"bot", "notifier"}]

\* log the error; os.Exit(1)
Exit1(m) == [m EXCEPT !.pc = "exited", !.exit = "exit1"]

\* config.Load and strconv.Atoi(cfg.YClientsCompanyID); yclients.New
MainLoad ==
    /\ main.pc = "load"
    /\ \E ok \in BOOLEAN :
         main' = IF ok THEN [main EXCEPT !.pc = "selfcheck"] ELSE Exit1(main)
    /\ UNCHANGED <<clientVars, probe, LoopVars>>

\* a self-check whose failure is only logged
AfterSelfCheckLogOnly(m, ok) ==
    [m EXCEPT !.pc = "storage",
              !.selfCheck = IF ok THEN "ok" ELSE "failed"]

\* if _, err := yc.GetBookableStaffIDs(...); err != nil { os.Exit(1) }
AfterSelfCheck(m, ok) ==
    IF ok THEN [m EXCEPT !.pc = "storage", !.selfCheck = "ok"]
    ELSE Exit1([m EXCEPT !.selfCheck = "failed"])

\* if len(cfg.ServiceIDs) > 0 { the authentication test } else { a warning }
MainSelfCheck ==
    /\ main.pc = "selfcheck"
    /\ IF Len(opts.ServiceIDs) > 0
       THEN \E r \in Listing(catalogue.staff) :
                main' = AfterSelfCheck(main, r.ok)
       ELSE main' = [main EXCEPT !.pc = "storage", !.selfCheck = "skipped"]
    /\ UNCHANGED <<clientVars, probe, LoopVars>>

\* storage.New("/data/notifier.db"), store.GetStats
MainStorage ==
    /\ main.pc = "storage"
    /\ \E ok \in BOOLEAN :
         main' = IF ok THEN [main EXCEPT !.pc = "bot", !.storage = TRUE]
                 ELSE Exit1(main)
    /\ UNCHANGED <<clientVars, probe, LoopVars>>

\* bot.New, UpdateInterfaceForAll, notifier.New, the metrics server
MainBot ==
    /\ main.pc = "bot"
    /\ \E ok \in BOOLEAN :
         main' = IF ok THEN [main EXCEPT !.pc = "start"] ELSE Exit1(main)
    /\ UNCHANGED <<clientVars, probe, LoopVars>>

\* go tg.Run(ctx); go n.Run(ctx)
MainStartComponents ==
    /\ main.pc = "start"
    /\ main' = [main EXCEPT !.pc = "wait", !.components = {"bot", "notifier"}]
    /\ UNCHANGED <<clientVars, probe, LoopVars>>

\* <-ctx.Done(); context.WithTimeout(5 * time.Second); go wg.Wait()
MainWait ==
    /\ main.pc = "wait"
    /\ ctxDone
    /\ main' = [main EXCEPT !.pc = "shutdown", !.timer = "running"]
    /\ UNCHANGED <<clientVars, probe, LoopVars>>

\* the 5 seconds of shutdownCtx pass
ShutdownTimer ==
    /\ main.exit = "none"
    /\ main.timer = "running"
    /\ main' = [main EXCEPT !.timer = "fired"]
    /\ UNCHANGED <<clientVars, probe, LoopVars>>

\* Bot.Run: case <-ctx.Done(): return
BotReturns ==
    /\ main.exit = "none"
    /\ "bot" \in main.components
    /\ ~main.botReturned
    /\ ctxDone
    /\ main' = [main EXCEPT !.botReturned = TRUE]
    /\ UNCHANGED <<clientVars, probe, LoopVars>>

\* wg.Wait() has returned and done is closed: both goroutines have returned
Done(m, f) == m.botReturned /\ f.pc = "returned"

\* a select without the case of the timeout
ShutdownCasesNoTimeout(m, f) ==
    IF Done(m, f) THEN {"graceful"} ELSE {}

\* select { case <-done: ... case <-shutdownCtx.Done(): ... }: the cases that
\* are ready
ShutdownCases(m, f) ==
    (IF Done(m, f) THEN {"graceful"} ELSE {}) \cup
    (IF m.timer = "fired" THEN {"forced"} ELSE {})

\* the select of main takes a case that is ready, and main returns
MainSelect ==
    /\ main.pc = "shutdown"
    /\ \E c \in ShutdownCases(main, n) :
         main' = [main EXCEPT !.pc = "exited", !.exit = c]
    /\ UNCHANGED <<clientVars, probe, LoopVars>>

\* the goroutine of n.Run(ctx) exists and the process has not ended
NotifierRuns == main.exit = "none" /\ "notifier" \in main.components

\* the goroutine of tg.Run(ctx) handles messages
BotRuns ==
    main.exit = "none" /\ "bot" \in main.components /\ ~main.botReturned

(***************************************************************************)
(* Specifications of the discovery loop.                                   *)
(***************************************************************************)
\* the keys the loop can build
Keys ==
    {buildKey(s, st, dt) : s \in Range(opts.ServiceIDs),
                           st \in Range(catalogue.staff),
                           dt \in Range(catalogue.datetimes)}

InitLoop ==
    /\ main = MainStarted(opts)
    /\ now = 0
    /\ ctxDone = FALSE
    /\ tickerC = 0
    /\ inFlight = 0
    /\ n = Idle
    /\ seen_slots = {}
    /\ slot = NoSlot
    /\ sweep = NoSweep
    /\ probe = NoProbe
    /\ InitClient

Sweep ==
    \/ SelectTick
    \/ ListStaff
    \/ ListDates
    \/ ListTimeslots
    \/ CheckSlot
    \/ MarkSlot
    \/ ReadSubscribers
    \/ NotifyOne
    \/ LogNotified
    \/ Clean

\* Spec: one service with one staff member and one date, two timeslot
\* entries; the bot changes the subscriber list and the context can be
\* cancelled while the loop runs
Init ==
    /\ opts = [ServiceIDs |-> <<100>>, LocationID |-> 1,
               Timezone |-> "Europe/Moscow"]
    /\ catalogue = [staff |-> <<42>>, dates |-> <<"2025-06-01">>,
                    datetimes |-> <<"2025-06-01T10:00:00+03:00", "10:00">>]
    /\ subscribers \in SUBSET Chats
    /\ watch = NoWatch("")
    /\ InitLoop

Next ==
    \/ Sweep
    \/ SelectDone
    \/ TickerFires
    \/ Cancel
    \/ BotSubscribe
    \/ BotUnsubscribe

Spec == Init /\ [][Next]_vars

\* SpecSweep: two services, two staff members, two dates, one subscriber
InitSweep ==
    /\ opts = [ServiceIDs |-> <<100, 200>>, LocationID |-> 1,
               Timezone |-> "Europe/Moscow"]
    /\ catalogue = [staff |-> <<41, 42>>,
                    dates |-> <<"2025-06-01", "2025-06-02">>,
                    datetimes |-> <<"2025-06-01T10:00:00+03:00">>]
    /\ subscribers = {1}
    /\ watch = NoWatch("")
    /\ InitLoop

NextSweep ==
    \/ Sweep
    \/ TickerFires

SpecSweep == InitSweep /\ [][NextSweep]_vars

\* SpecDays: one service, one staff member, one date, days pass between the
\* calls; the history of one key is followed
InitDays ==
    /\ opts = [ServiceIDs |-> <<100>>, LocationID |-> 1,
               Timezone |-> "Europe/Moscow"]
    /\ catalogue = [staff |-> <<42>>, dates |-> <<"2025-06-01">>,
                    datetimes |-> <<"2025-06-01T10:00:00+03:00", "10:00">>]
    /\ subscribers = {1}
    /\ watch \in {NoWatch(k) : k \in Keys}
    /\ InitLoop

NextDays ==
    \/ Sweep
    \/ TickerFires
    \/ DayPasses

SpecDays == InitDays /\ [][NextDays]_vars

\* SpecPrune: two services with one staff member, one date and one timeslot
\* entry, days pass between the calls; the goroutine of Run keeps taking the
\* steps of a tick
InitPrune ==
    /\ opts = [ServiceIDs |-> <<100, 200>>, LocationID |-> 1,
               Timezone |-> "Europe/Moscow"]
    /\ catalogue = [staff |-> <<42>>, dates |-> <<"2025-06-01">>,
                    datetimes |-> <<"2025-06-01T10:00:00+03:00">>]
    /\ subscribers = {1}
    /\ watch = NoWatch("")
    /\ InitLoop

SpecPrune == InitPrune /\ [][NextDays]_vars /\ WF_vars(Sweep)

\* SpecCancel: Spec with the scheduling of the goroutine of Run.  The
\* listing calls return (the client has a timeout of 10 seconds and the
\* requests carry the context), the calls of the store return, and a select
\* that finds ctx.Done() ready again and again takes it at some point.
\* Bot.Notify sends through the Telegram client of bot.New, to which the
\* program gives neither a timeout nor the context: nothing makes it return.
Returning ==
    \/ SelectTick
    \/ ListStaff
    \/ ListDates
    \/ ListTimeslots
    \/ CheckSlot
    \/ MarkSlot
    \/ ReadSubscribers
    \/ LogNotified
    \/ Clean

SpecCancel ==
    Init /\ [][Next]_vars /\ WF_vars(Returning) /\ SF_vars(SelectDone)

\* SpecPartial: two services with one staff member, one date and one timeslot
\* entry; the context can be cancelled while a tick runs
NextPartial ==
    \/ Sweep
    \/ SelectDone
    \/ TickerFires
    \/ Cancel

SpecPartial == InitPrune /\ [][NextPartial]_vars

\* SpecErrors: two services, one staff member, two dates and two timeslot
\* entries; the goroutine of Run keeps taking the steps of a tick
InitErrors ==
    /\ opts = [ServiceIDs |-> <<100, 200>>, LocationID |-> 1,
               Timezone |-> "Europe/Moscow"]
    /\ catalogue = [staff |-> <<42>>,
                    dates |-> <<"2025-06-01", "2025-06-02">>,
                    datetimes |-> <<"2025-06-01T10:00:00+03:00", "10:00">>]
    /\ subscribers = {1}
    /\ watch = NoWatch("")
    /\ InitLoop

SpecErrors == InitErrors /\ [][NextSweep]_vars /\ WF_vars(Sweep)

\* SpecStore: the methods of Storage are called directly, with any key, while
\* days pass
CallMarkSlotSeen ==
    /\ n.pc = "select"
    /\ \E k \in Keys, fault \in BOOLEAN :
         /\ seen_slots' = IF fault THEN seen_slots
                          ELSE MarkSlotSeen(seen_slots, k, now)
         /\ slot' = [NoSlot EXCEPT
                       !.key = k, !.marks = <<k>>,
                       !.markOK = ~MarkSlotSeenError(seen_slots, k, fault),
                       !.errors = IF fault THEN 1 ELSE 0]
    /\ UNCHANGED <<main, clientVars, probe, opts, catalogue, now, ctxDone, tickerC, inFlight,
                   n, subscribers, sweep, watch>>

CallCleanOldSlots ==
    /\ n.pc = "select"
    /\ \E fault \in BOOLEAN :
         seen_slots' = IF fault THEN seen_slots
                       ELSE CleanOldSlots(seen_slots, Retention, now)
    /\ slot' = NoSlot
    /\ UNCHANGED <<main, clientVars, probe, opts, catalogue, now, ctxDone, tickerC, inFlight,
                   n, subscribers, sweep, watch>>

NextStore ==
    \/ CallMarkSlotSeen
    \/ CallCleanOldSlots
    \/ DayPasses

SpecStore == Init /\ [][NextStore]_vars

\* SpecGuard: like Spec, with every combination of an empty or a non-empty
\* list of services and of a location that is 0 or not
InitGuard ==
    /\ opts \in {[ServiceIDs |-> s, LocationID |-> l,
                  Timezone |-> "Europe/Moscow"] :
                    s \in {<<>>, <<100>>}, l \in {0, 1}}
    /\ catalogue = [staff |-> <<42>>, dates |-> <<"2025-06-01">>,
                    datetimes |-> <<"2025-06-01T10:00:00+03:00", "10:00">>]
    /\ subscribers \in SUBSET Chats
    /\ watch = NoWatch("")
    /\ InitLoop

SpecGuard == InitGuard /\ [][Next]_vars

\* SpecAuth: the two goroutines that use the client make listing calls while
\* time passes
InitAuth == InitSweep

ListingCall(g) ==
    \/ CallStart(g)
    \/ AuthEnter(g)
    \/ LoginReturns(g)
    \/ RLock(g)
    \/ RUnlock(g)
    \/ Send(g)
    \/ ListingReturns(g)
    \/ CallReturn(g)

NextAuth ==
    \/ \E g \in Goroutines : ListingCall(g) /\ UNCHANGED <<LoopVars, probe, main>>
    \/ TimePasses /\ UNCHANGED <<LoopVars, probe, main>>

SpecAuth == InitAuth /\ [][NextAuth]_vars

\* SpecZone: two services with one staff member, one date and two timeslot
\* entries; the configured time zone is one the database has or one it does
\* not have, and the process runs on an even or on an odd day
InitZone ==
    /\ opts \in {[ServiceIDs |-> <<100, 200>>, LocationID |-> 1,
                  Timezone |-> z] :
                    z \in {"Europe/Moscow", "UTC", "Asia/Tokyo",
                           "America/Bogota", "Mars/Olympus"}}
    /\ catalogue = [staff |-> <<42>>, dates |-> <<"2025-06-01">>,
                    datetimes |-> <<"2025-06-01T22:30:00+03:00", "10:00">>]
    /\ subscribers = {1}
    /\ watch = NoWatch("")
    /\ now \in {0, 1}
    /\ main = MainStarted(opts)
    /\ ctxDone = FALSE
    /\ tickerC = 0
    /\ inFlight = 0
    /\ n = Idle
    /\ seen_slots = {}
    /\ slot = NoSlot
    /\ sweep = NoSweep
    /\ probe = NoProbe
    /\ InitClient

SpecZone == InitZone /\ [][NextSweep]_vars

(***************************************************************************)
(* migrate_from_logs: the rows the script makes of the log of an earlier    *)
(* run.  A log entry is [message, service_id, staff_id, time, timestamp];   *)
(* timestamp is [ok, at]: whether time.Parse accepts it, and the day.       *)
(***************************************************************************)
\* the log line of checkAndNotify for a new slot, written on day at
NewSlotFound(service, staff, t, at) ==
    [message |-> "New slot found", service_id |-> service,
     staff_id |-> staff, time |-> t, timestamp |-> [ok |-> TRUE, at |-> at]]

\* a key in the format of an older version
MigrationKeyOldFormat(e) ==
    ToString(e.service_id) \o ":" \o ToString(e.staff_id) \o ":" \o e.time

\* key := fmt.Sprintf("svc=%d|staff=%d|dt=%s", ServiceID, StaffID, Time)
MigrationKey(e) ==
    "svc=" \o ToString(e.service_id) \o "|staff=" \o ToString(e.staff_id)
           \o "|dt=" \o e.time

\* the entries the script takes: "New slot found" with a service, a staff
\* member, a time and a timestamp that parses
Migrated(e) ==
    /\ e.message = "New slot found"
    /\ e.service_id # 0 /\ e.staff_id # 0 /\ e.time # ""
    /\ e.timestamp.ok

\* insertSeenSlot for every entry taken: INSERT OR IGNORE INTO seen_slots
\* (slot_key, created_at) VALUES (?, ?)
Migrate(log) ==
    {[slot_key |-> MigrationKey(e), created_at |-> e.timestamp.at] :
        e \in {x \in log : Migrated(x)}}

\* the log entries of the earlier run: the slot in both forms, logged six
\* days before or on the day the new process starts, entries the script
\* leaves out, and a line of another message
LogEntries ==
    {NewSlotFound(100, 42, "2025-06-01T10:00:00+03:00", -6),
     NewSlotFound(100, 42, "10:00", 0),
     NewSlotFound(0, 42, "10:00", 0),
     NewSlotFound(100, 0, "10:00", 0),
     NewSlotFound(100, 42, "", 0),
     [NewSlotFound(100, 42, "10:00", 0) EXCEPT !.timestamp.ok = FALSE],
     [NewSlotFound(100, 42, "10:00", 0) EXCEPT
         !.message = "Notified subscribers about new slot"]}

\* the logs that are migrated: one entry, or the slot in both forms
Logs ==
    {{e} : e \in LogEntries} \cup
    {{NewSlotFound(100, 42, "2025-06-01T10:00:00+03:00", -6),
      NewSlotFound(100, 42, "10:00", 0)}}

\* SpecMigrate: the process starts on the table the script has filled; one
\* service, one staff member, one date, the slot in both forms, days pass
InitMigrate ==
    /\ opts = [ServiceIDs |-> <<100>>, LocationID |-> 1,
               Timezone |-> "Europe/Moscow"]
    /\ catalogue = [staff |-> <<42>>, dates |-> <<"2025-06-01">>,
                    datetimes |-> <<"2025-06-01T10:00:00+03:00", "10:00">>]
    /\ subscribers = {1}
    /\ watch = NoWatch("")
    /\ \E log \in Logs :
         /\ probe = [fn |-> "migrate", log |-> log]
         /\ seen_slots = Migrate(log)
    /\ main = MainStarted(opts)
    /\ now = 0
    /\ ctxDone = FALSE
    /\ tickerC = 0
    /\ inFlight = 0
    /\ n = Idle
    /\ slot = NoSlot
    /\ sweep = NoSweep
    /\ InitClient

SpecMigrate == InitMigrate /\ [][NextDays]_vars

(***************************************************************************)
(* main.getCurrentSlots, run by Bot.handleCurrentSlots.                     *)
(***************************************************************************)
\* the datetimes getCurrentSlots can show: it makes the three listing calls
\* for every service, staff member and date, skips what fails, and shows the
\* timeslots that parse as RFC 3339
CurrentSlots ==
    IF ctxDone THEN {{}}
    ELSE SUBSET {dt \in Range(catalogue.datetimes) : ~Parse(dt).err}

\* a handler that records what it has shown as seen
AfterCurrentSlotsMarked(table, shown, at) ==
    table \cup {[slot_key |-> buildKey(opts.ServiceIDs[1],
                                       catalogue.staff[1], dt),
                 created_at |-> at] : dt \in shown}

\* getCurrentSlots has the client only: the table is as it was
AfterCurrentSlots(table, shown, at) == table

\* the "current" command or button: slots, err := b.currentSlotsFn(), then
\* the reply with the list
BotCurrent ==
    /\ \E shown \in CurrentSlots :
         /\ probe' = [fn |-> "current", shown |-> shown]
         /\ seen_slots' = AfterCurrentSlots(seen_slots, shown, now)
    /\ UNCHANGED <<main, clientVars, opts, catalogue, now, ctxDone, tickerC,
                   inFlight, n, subscribers, slot, sweep, watch>>

\* SpecCurrent: Spec with chats that ask for the current slots
NextCurrent ==
    \/ Next
    \/ BotCurrent

SpecCurrent == Init /\ [][NextCurrent]_vars

\* SpecMain: the process from the first statement of main to its end, with
\* or without a configured service.  A main that can receive from ctx.Done()
\* does, the 5 seconds of shutdownCtx pass, and a select with a ready case
\* takes one; nothing is assumed of the bot and the notifier, which need not
\* return.
InitMain ==
    /\ opts \in {[ServiceIDs |-> s, LocationID |-> 1,
                  Timezone |-> "Europe/Moscow"] : s \in {<<>>, <<100>>}}
    /\ catalogue = [staff |-> <<42>>, dates |-> <<"2025-06-01">>,
                    datetimes |-> <<"2025-06-01T10:00:00+03:00">>]
    /\ subscribers \in SUBSET Chats
    /\ watch = NoWatch("")
    /\ main = MainAtStart
    /\ now = 0
    /\ ctxDone = FALSE
    /\ tickerC = 0
    /\ inFlight = 0
    /\ n = Idle
    /\ seen_slots = {}
    /\ slot = NoSlot
    /\ sweep = NoSweep
    /\ probe = NoProbe
    /\ InitClient

MainSteps ==
    \/ MainLoad
    \/ MainSelfCheck
    \/ MainStorage
    \/ MainBot
    \/ MainStartComponents
    \/ MainWait

NextMain ==
    \/ MainSteps
    \/ MainSelect
    \/ ShutdownTimer
    \/ BotReturns
    \/ main.exit = "none" /\ Cancel
    \/ NotifierRuns /\ (Sweep \/ SelectDone \/ TickerFires)
    \/ BotRuns /\ (BotSubscribe \/ BotUnsubscribe)

SpecMain ==
    /\ InitMain
    /\ [][NextMain]_vars
    /\ WF_vars(MainWait)
    /\ WF_vars(ShutdownTimer)
    /\ WF_vars(MainSelect)

\* SpecInterval: CHECK_INTERVAL_SECONDS has any value of at most MaxEnvLen
\* characters; main loads the configuration, constructs the notifier and
\* Run creates its ticker
InitInterval ==
    /\ opts = [ServiceIDs |-> <<100>>, LocationID |-> 1,
               Timezone |-> "Europe/Moscow"]
    /\ catalogue = [staff |-> <<42>>, dates |-> <<"2025-06-01">>,
                    datetimes |-> <<"2025-06-01T10:00:00+03:00">>]
    /\ subscribers = {}
    /\ watch = NoWatch("")
    /\ main = MainAtStart
    /\ now = 0
    /\ ctxDone = FALSE
    /\ tickerC = 0
    /\ inFlight = 0
    /\ n = Idle
    /\ seen_slots = {}
    /\ slot = NoSlot
    /\ sweep = NoSweep
    /\ \E env \in Getenv :
         probe = [fn |-> "interval", at |-> "env", env |-> env, cfg |-> 0,
                  opts |-> 0, ticker |-> 0]
    /\ InitClient

NextInterval ==
    \/ CallLoad
    \/ CallNew
    \/ CallNewTicker

SpecInterval == InitInterval /\ [][NextInterval]_vars

\* SpecBot: the chats send any messages to the bot, one handled after the
\* other, and any write to the table may fail
InitBot ==
    /\ opts = [ServiceIDs |-> <<100>>, LocationID |-> 1,
               Timezone |-> "Europe/Moscow"]
    /\ catalogue = [staff |-> <<42>>, dates |-> <<"2025-06-01">>,
                    datetimes |-> <<"2025-06-01T10:00:00+03:00">>]
    /\ subscribers = {}
    /\ watch = NoWatch("")
    /\ main = MainStarted(opts)
    /\ now = 0
    /\ ctxDone = FALSE
    /\ tickerC = 0
    /\ inFlight = 0
    /\ n = Idle
    /\ seen_slots = {}
    /\ slot = NoSlot
    /\ sweep = NoSweep
    /\ probe = [fn |-> "bot", rows |-> <<>>, before |-> <<>>,
                msg |-> [chat |-> 0, text |-> "", err |-> FALSE],
                asked |-> [c \in Chats |-> "none"]]
    /\ InitClient

SpecBot == InitBot /\ [][BotMessage]_vars

\* SpecKey: buildKey is called with service and staff ids of one and of two
\* digits, zero and negative, and with datetimes that are empty, bare times,
\* RFC 3339 or contain the separators of the key; two calls are made
KeyIDs == {-1, 0, 1, 11}

KeyDatetimes ==
    {"", "10:00", "2025-06-01T10:00:00+03:00", "1|staff=1|dt=10:00",
     "|dt=10:00"}

CallBuildKey ==
    /\ IF probe = NoProbe THEN TRUE ELSE probe.prev = probe.last
    /\ \E s \in KeyIDs, st \in KeyIDs, dt \in KeyDatetimes :
         LET c == [args |-> <<s, st, dt>>, out |-> buildKey(s, st, dt)]
         IN  probe' = [fn |-> "buildKey", last |-> c,
                       prev |-> IF probe.fn = "buildKey" THEN probe.last
                                ELSE c]
    /\ UNCHANGED <<main, clientVars, LoopVars>>

SpecKey == Init /\ [][CallBuildKey]_vars

\* SpecParse: a parse function is called with any response of at most
\* MaxEntries entries
NextParse ==
    \/ CallParseStaffIDs
    \/ CallParseTimeslots

SpecParse == InitSweep /\ [][NextParse]_vars

(***************************************************************************)
(* Properties of the discovery loop.                                       *)
(***************************************************************************)
InEntry == n.pc \in {"mark", "subscribers", "notify", "notified"}

Count(x, seq) == Cardinality({i \in DOMAIN seq : seq[i] = x})

C2_FirstDiscovery ==
    /\ slot.result = "new" => InEntry
    /\ InEntry => slot.result = "new"
    /\ n.pc \in {"subscribers", "notify", "notified"} =>
         slot.marks = << "svc=100|staff=42|dt=" \o datetime(n) >>
    /\ n.pc \in {"notify", "notified"} =>
         (slot.lookupOK => Range(slot.listed) = slot.table)
    /\ n.pc = "notified" =>
         \A c \in Chats :
             Count(c, slot.notified) = IF c \in Range(slot.listed) THEN 1 ELSE 0

\* the scenario of the specification, with two subscribers
C2_Witness ==
    /\ n.pc = "notified"
    /\ slot.marks = << "svc=100|staff=42|dt=2025-06-01T10:00:00+03:00" >>
    /\ slot.notified = <<1, 2>>

\* C3: a timeslot entry whose key IsSlotSeen reports as seen gets no
\* MarkSlotSeen and no Notify, logs no error, and the loop goes on.
C3_RepeatDiscovery ==
    slot.result = "seen" =>
        /\ ~InEntry
        /\ slot.marks = <<>>
        /\ slot.notified = <<>>
        /\ slot.errors = 0
        /\ IsSlotSeen(seen_slots, slot.key)

\* a tick finds its first entry new and its second entry already seen
C3_Witness ==
    /\ slot.result = "seen"
    /\ n.totalChecks = 2
    /\ n.newSlotsFound = 1

\* C4 (as stated): when a call fails during a tick, a slot that has not been
\* notified is not left recorded as seen.  Here: when the subscriber lookup
\* or a delivery failed for a new slot, its key is not in seen_slots.
C4_NoSlotLost ==
    (n.pc = "notified" /\ (slot.failed # {} \/ ~slot.lookupOK))
        => ~IsSlotSeen(seen_slots, slot.key)

\* C5: a failed or empty listing call skips only its own service, staff
\* member or date: when the loop leaves a staff member it has asked for the
\* timeslots of every date listed for him, when it leaves a service it has
\* asked for the dates of every staff member listed for it, and when it
\* reaches CleanOldSlots it has asked for the staff of every service.
C5_FailSoft ==
    [][ /\ (n.sj > 0 /\ (n'.sj # n.sj \/ n'.si # n.si))
            => sweep'.timesCalls = Len(n.dates)
        /\ (n.si > 0 /\ n'.si # n.si)
            => sweep'.datesCalls = Len(n.staffIDs)
        /\ (n.si > 0 /\ n'.pc = "clean")
            => sweep'.staffCalls = Len(opts.ServiceIDs)
      ]_vars

\* a staff call, a dates call and a timeslots call have failed in this tick,
\* and a later entry of the same tick is broadcast
C5_Witness ==
    /\ sweep.failures = {"staff", "dates", "timeslots"}
    /\ n.pc = "notified"
    /\ slot.notified # <<>>

\* C6: at most one execution of checkAndNotify is in flight, also when the
\* ticker fires again while a tick is running.
C6_NoConcurrentTicks ==
    /\ inFlight \in {0, 1}
    /\ inFlight = 1 <=> n.pc \notin {"select", "returned"}

\* the ticker has fired again while a tick is notifying
C6_Witness ==
    /\ inFlight = 1
    /\ tickerC = 1
    /\ n.pc = "notify"

C8_TokenValidAtSendAsStated ==
    \A g \in Goroutines :
        call[g].sentAt # -1 => call[g].sentAt < call[g].exp

\* C8 (amended): every listing request carries a non-empty session token
\* whose stored expiry was strictly in the future when authenticate of that
\* call checked the expiry or stored the token, also while the other
\* goroutine refreshes the token.
C8_TokenValidAtCheck ==
    \A g \in Goroutines :
        call[g].sentAt # -1 =>
            /\ call[g].token # ""
            /\ call[g].authAt # -1
            /\ call[g].authAt < call[g].exp
            /\ call[g].authAt <= call[g].sentAt

\* a request is sent later than its expiry check, while the other goroutine
\* is refreshing the token
C8_Witness ==
    \E g, h \in Goroutines :
        /\ call[g].pc = "wait"
        /\ call[g].sentAt > call[g].authAt
        /\ call[h].pc = "login"

\* C9: at most one login exchange is in flight, and it excludes the readers
\* of the token; a goroutine logs in only when the stored expiry is not in
\* the future at the moment it acquires the lock, so a caller that finds the
\* expiry a login has just stored performs no login of its own; the stored
\* expiry is the time of the last login plus 4m30s.
C9_SerializedRefresh ==
    /\ Cardinality({g \in Goroutines : call[g].pc = "login"}) <= 1
    /\ \A g \in Goroutines :
         /\ call[g].pc = "login" =>
              (mu.writer = g /\ call[g].lockAt >= tokenExp)
         /\ call[g].pc = "rlocked" <=> g \in mu.readers
         /\ (call[g].lockAt # -1 /\ call[g].logins = 0) =>
              call[g].lockAt < tokenExp
    /\ mu.writer # None => (mu.readers = {} /\ call[mu.writer].pc = "login")
    /\ tokenExp # 0 => (userToken = Token(issued) /\ tokenExp <= clock + TokenTTL)

\* both goroutines hold the read lock at once, and one of them waited for
\* the lock while the other logged in and then performed no login itself
C9_Witness ==
    /\ mu.readers = Goroutines
    /\ \E g \in Goroutines :
         call[g].sawLogin /\ call[g].logins = 0 /\ issued = 1

\* C10: one listing call performs at most one login attempt and at most one
\* listing request, and a transport failure or a non-2xx status on either
\* makes the call return an error.
C10_NoRetry ==
    \A g \in Goroutines :
        /\ call[g].logins <= 1
        /\ call[g].requests <= 1
        /\ call[g].login = "failed" =>
             (call[g].result = "err" /\ call[g].requests = 0)
        /\ call[g].listing \in {"transport", "status"} =>
             call[g].result = "err"
        /\ call[g].result = "ok" =>
             (call[g].requests = 1 /\ call[g].listing = "ok")

\* a call has returned an error for a non-2xx listing status after a login
C10_Witness ==
    \E g \in Goroutines :
        /\ call[g].pc = "done"
        /\ call[g].login = "ok"
        /\ call[g].listing = "status"
        /\ call[g].result = "err"

(***************************************************************************)
(* Properties of the sweep: guards, pruning, errors.                       *)
(***************************************************************************)
\* C11: when GetBookableStaffIDs returns an empty list for a service, the
\* tick goes straight to the staff call of the next service, or to
\* CleanOldSlots after the last one: no dates call, no timeslots call, no
\* store access and no notification is made for that service, and the
\* counters of new slots and of checks stay as they were.
C11_EmptyStaff ==
    [][ (n.pc = "staff" /\ sweep'.staffCalls = sweep.staffCalls + 1
                        /\ sweep'.lastStaff = "empty") =>
          /\ IF n.si < Len(opts.ServiceIDs)
             THEN n'.pc = "staff" /\ n'.si = n.si + 1
             ELSE n'.pc = "clean"
          /\ sweep'.datesCalls = 0
          /\ sweep'.timesCalls = sweep.timesCalls
          /\ slot' = NoSlot
          /\ seen_slots' = seen_slots
          /\ n'.newSlotsFound = n.newSlotsFound
          /\ n'.totalChecks = n.totalChecks
      ]_vars

\* the first service had a new slot, the second one has no bookable staff,
\* and the tick is about to complete
C11_Witness ==
    /\ sweep.lastStaff = "empty"
    /\ n.pc = "clean"
    /\ n.newSlotsFound = 1
    /\ sweep.staffCalls = 2

\* C12: with an empty list of services or with location 0 no tick ever makes
\* a booking-API call, a store access or a notification: the loop is only
\* ever in its select (or has returned), and a tick it takes is skipped.
C12_ConfigGuard ==
    (Len(opts.ServiceIDs) = 0 \/ opts.LocationID = 0) =>
        /\ n.pc \in {"select", "returned"}
        /\ inFlight = 0
        /\ sweep \in {NoSweep, [NoSweep EXCEPT !.guard = "skipped"]}
        /\ slot = NoSlot
        /\ seen_slots = {}

\* services are configured, the location is 0: a tick has been skipped, the
\* loop is in its select again and the next tick is waiting in the channel
C12_Witness ==
    /\ Len(opts.ServiceIDs) > 0
    /\ opts.LocationID = 0
    /\ sweep.guard = "skipped"
    /\ n.pc = "select"
    /\ tickerC = 1

C14_Retention ==
    [][ /\ (n.pc = "clean" /\ sweep'.clean = "ok") =>
              /\ seen_slots' \subseteq seen_slots
              /\ \A r \in seen_slots :
                   /\ now - r.created_at > 7 => r \notin seen_slots'
                   /\ now - r.created_at <= 7 => r \in seen_slots'
                   /\ now - r.created_at = 3 => r \in seen_slots'
        /\ (n.pc = "clean" /\ sweep'.clean # "none") =>
              subscribers' = subscribers
      ]_vars

\* CleanOldSlots has just deleted the row of the watched key and has kept a
\* row that is 3 days old
C14_Witness ==
    /\ sweep.clean = "ok"
    /\ watch.prev = "pruned"
    /\ \E r \in seen_slots : now - r.created_at = 3

\* C16: when a new slot is broadcast, the Notify attempts follow the list
\* that Subscribers returned for the slot, chat by chat, one attempt each,
\* whether or not an earlier attempt failed.
C16_DeliveryIndependence ==
    /\ n.pc = "notify" =>
         /\ slot.notified = SubSeq(slot.listed, 1, n.ci - 1)
         /\ slot.failed \subseteq Range(slot.notified)
    /\ n.pc = "notified" =>
         /\ slot.notified = slot.listed
         /\ slot.failed \subseteq Range(slot.listed)

\* Notify has failed for the first of two chats and the second chat has got
\* its attempt
C16_Witness ==
    /\ n.pc = "notified"
    /\ slot.listed = <<1, 2>>
    /\ 1 \in slot.failed
    /\ slot.notified = <<1, 2>>

C18_RunReturns == ctxDone ~> (n.pc = "returned")

\* C19 (as stated): once the context is cancelled no new tick is started and
\* a sweep in progress makes no further IsSlotSeen, MarkSlotSeen or
\* CleanOldSlots access and sends no further notification.
C19_HonoursCancellation ==
    [][ ctxDone =>
          /\ ~(n.pc = "select" /\ n'.pc \notin {"select", "returned"})
          /\ n.pc \notin {"check", "mark", "notify", "clean"} \/ n' = n
      ]_vars

\* C20: every row of seen_slots has the key of a service of the
\* configuration, a staff member and a datetime that the booking API
\* returns; a row is added only by MarkSlotSeen for the entry being
\* processed, whose datetime comes from the list that a successful
\* GetBookableTimeslots call returned for the current service and staff
\* member; a listing call that fails, or that is made after cancellation,
\* leaves the list of entries empty and adds no row.
C20_NoCorruption ==
    /\ [](\A r \in seen_slots :
            \E s \in Range(opts.ServiceIDs), st \in Range(catalogue.staff),
               dt \in Range(catalogue.datetimes) :
                r.slot_key = "svc=" \o ToString(s) \o "|staff="
                                    \o ToString(st) \o "|dt=" \o dt)
    /\ [][ /\ seen_slots' \ seen_slots # {} =>
                /\ n.pc = "mark"
                /\ n.ti \in 1..Len(n.times)
                /\ seen_slots' \ seen_slots =
                     {[slot_key |-> buildKey(opts.ServiceIDs[n.si],
                                             n.staffIDs[n.sj], n.times[n.ti]),
                       created_at |-> now]}
           /\ (n'.times # n.times /\ n'.times # <<>>) =>
                /\ n.pc = "timeslots"
                /\ ~ctxDone
                /\ n'.si = n.si /\ n'.sj = n.sj /\ n'.di = n.di
                /\ Range(n'.times) \subseteq Range(catalogue.datetimes)
           /\ (n.pc \in {"staff", "dates", "timeslots"} /\ n' # n) =>
                /\ seen_slots' = seen_slots
                /\ ctxDone => n'.times = <<>>
         ]_vars

\* the slot of the first service has been marked, the context has been
\* cancelled, the staff call of the second service has failed and the tick
\* is at CleanOldSlots
C20_Witness ==
    /\ ctxDone
    /\ n.pc = "clean"
    /\ "staff" \in sweep.failures
    /\ n.newSlotsFound = 1
    /\ seen_slots # {}

\* C21: the loop of Run ends only through the ctx.Done() case of its select,
\* that is only after cancellation; a tick always returns to the select,
\* whatever listing, store or delivery calls failed in it, and from the
\* select the next tick starts when the ticker has fired (unless the context
\* has been cancelled).
C21_OnlyCancellationEnds ==
    /\ [](n.pc = "returned" => ctxDone)
    /\ [][ /\ (n'.pc = "returned" /\ n.pc # "returned") =>
                (n.pc = "select" /\ ctxDone)
           /\ (n.pc = "clean" /\ n' # n) => n' = Idle
         ]_vars
    /\ (n.pc = "select" /\ tickerC = 1) ~> (inFlight = 1 \/ ctxDone)

\* the tick before this one had failing calls, the context is not cancelled
\* and the next tick is running
C21_Witness ==
    /\ sweep.prev = "errors"
    /\ ~ctxDone
    /\ inFlight = 1
    /\ n.pc = "check"

\* C22: buildKey gives the same key for the same (serviceID, staffID,
\* datetime) and different keys for two triples that differ in a field; the
\* key is svc=<serviceID>|staff=<staffID>|dt=<datetime> and nothing else.
C22_KeyInjective ==
    probe.fn = "buildKey" =>
        /\ (probe.last.args = probe.prev.args) <=>
               (probe.last.out = probe.prev.out)
        /\ \A c \in {probe.last, probe.prev} :
               c.out = "svc=" \o ToString(c.args[1]) \o "|staff="
                              \o ToString(c.args[2]) \o "|dt=" \o c.args[3]

\* two calls that differ in the staff id only, where the datetime of both
\* contains the separators of the key
C22_Witness ==
    /\ probe.fn = "buildKey"
    /\ probe.prev.args = <<1, 1, "1|staff=1|dt=10:00">>
    /\ probe.last.args = <<1, 11, "1|staff=1|dt=10:00">>
    /\ probe.last.out # probe.prev.out

(***************************************************************************)
(* Properties of the parse functions.                                      *)
(***************************************************************************)
\* an id that is a decimal integer up to its last character, after leading
\* spaces
Numeric(chars) ==
    LET in == SkipSpace(chars)
        body == IF in # <<>> /\ Head(in) \in {"+", "-"} THEN Tail(in) ELSE in
    IN  body # <<>> /\ Range(body) \subseteq DecimalDigits

RECURSIVE NumericBookable(_)
\* the bookable entries whose id is numeric, in response order
NumericBookable(data) ==
    IF data = <<>> THEN <<>>
    ELSE IF Head(data).is_bookable /\ Numeric(Head(data).id)
         THEN <<Head(data)>> \o NumericBookable(Tail(data))
         ELSE NumericBookable(Tail(data))

\* C23 (as stated): for a response whose envelope parses, parseStaffIDs
\* succeeds and returns one id for each bookable entry whose id is numeric,
\* in response order, and nothing for the other entries.
C23_StaffParsing ==
    (probe.fn = "parseStaffIDs" /\ probe.args.ok) =>
        /\ probe.out.ok
        /\ LET kept == NumericBookable(probe.args.data)
           IN  /\ Len(probe.out.val) = Len(kept)
               /\ \A i \in 1..Len(kept) :
                      Sscanf(kept[i].id).val = probe.out.val[i]

\* C24: for a response whose envelope parses, parseTimeslots returns, in
\* response order, one string for each bookable entry that has a datetime or
\* a time: the datetime when it is not empty, otherwise the time; the other
\* entries contribute nothing.
C24_TimeslotParsing ==
    (probe.fn = "parseTimeslots" /\ probe.args.ok) =>
        LET data == probe.args.data
            Kept == {i \in DOMAIN data :
                        /\ data[i].is_bookable
                        /\ (data[i].datetime # "" \/ data[i].time # "")}
            Pos(i) == Cardinality({j \in Kept : j <= i})
        IN  /\ probe.out.ok
            /\ Len(probe.out.val) = Cardinality(Kept)
            /\ \A i \in Kept :
                   probe.out.val[Pos(i)] =
                       IF data[i].datetime # "" THEN data[i].datetime
                       ELSE data[i].time

\* a bookable entry with a bare time only, an entry that is not bookable and
\* a bookable entry with both a datetime and a time
C24_Witness ==
    /\ probe.fn = "parseTimeslots"
    /\ probe.args.ok
    /\ Len(probe.args.data) = 3
    /\ probe.args.data[1] =
         [datetime |-> "", time |-> "10:00", is_bookable |-> TRUE]
    /\ ~probe.args.data[2].is_bookable
    /\ probe.args.data[3] =
         [datetime |-> "2025-06-01T10:00:00+03:00", time |-> "11:00",
          is_bookable |-> TRUE]
    /\ probe.out.val = <<"10:00", "2025-06-01T10:00:00+03:00">>

(***************************************************************************)
(* Properties of the client, continued.                                    *)
(***************************************************************************)
\* C25: a listing call performs the login exchange exactly when the client
\* holds no token or the current time is not before the stored expiry, and
\* never while the current time is before the stored expiry; a successful
\* login stores the returned token and sets the stored expiry to the time of
\* the login plus the token lifetime less the safety margin (TokenTTL).
C25_AuthTransition ==
    [][\A g \in Goroutines :
          /\ (call[g].pc = "lock" /\ call'[g].pc # "lock") =>
                 /\ (call'[g].pc = "login") <=>
                        (userToken = "" \/ ~(clock < tokenExp))
                 /\ (call'[g].pc = "login") => ~(clock < tokenExp)
                 /\ (call'[g].pc # "login") =>
                        /\ call'[g].logins = 0
                        /\ UNCHANGED <<userToken, tokenExp>>
          /\ (call[g].pc = "login" /\ call'[g].login = "ok") =>
                 /\ userToken' = Token(issued')
                 /\ userToken' # ""
                 /\ tokenExp' = clock' + TokenTTL]_vars

\* one goroutine has logged in a second time after the first token expired,
\* the other one passes the expiry check without a login
C25_Witness ==
    \E g, h \in Goroutines :
        /\ call[g].login = "ok"
        /\ issued = 2
        /\ call[h].pc = "rlock"
        /\ call[h].logins = 0
        /\ call[h].lockAt < tokenExp

(***************************************************************************)
(* Properties of the time zone handling.                                   *)
(***************************************************************************)
\* C26: when the configured time zone cannot be resolved the tick is not
\* skipped: it takes today's date on the clock of the fixed zone UTC+3, makes
\* the staff call of every service before it ends, and formatSlotMessage
\* shows a datetime on the clock of UTC+3.
C26_TimezoneFallback ==
    LoadLocation(opts.Timezone).err =>
        /\ sweep.guard # "skipped"
        /\ n.pc \notin {"select", "returned"} =>
               /\ n.loc = [name |-> "UTC+3", offset |-> 3]
               /\ n.today = IF HourOf(n.start) + 3 >= 24 THEN n.start + 1
                            ELSE n.start
        /\ n.pc = "clean" => sweep.staffCalls = Len(opts.ServiceIDs)
        /\ (slot.msg # NoMsg /\ datetime(n) = "2025-06-01T22:30:00+03:00") =>
               /\ slot.msg.Zone = "UTC+3"
               /\ slot.msg.Date = "01.06.2025"
               /\ slot.msg.Time = "22:30"
               /\ slot.msg.Weekday = 0

\* a tick that starts at 22:00 UTC with a time zone that is not resolved:
\* today is the next day, and a message is being delivered
C26_Witness ==
    /\ LoadLocation(opts.Timezone).err
    /\ n.pc = "notify"
    /\ n.si = 2
    /\ n.today = n.start + 1
    /\ slot.msg.Zone = "UTC+3"

(***************************************************************************)
(* Properties of the order of the calls within a tick.                     *)
(***************************************************************************)
\* C27: for a newly discovered slot MarkSlotSeen is called for its key
\* before the subscriber list is read and before any Notify for the slot,
\* and every Notify for the slot is called before the loop leaves the entry
\* for the IsSlotSeen lookup of the next one.
C27_MarkBeforeBroadcast ==
    [][/\ Len(slot'.marks) > Len(slot.marks) =>
              /\ n.pc = "mark"
              /\ slot.result = "new"
              /\ slot'.marks = <<key(n)>>
              /\ slot.listed = <<>> /\ slot.notified = <<>>
              /\ slot.msg = NoMsg
       /\ (n.pc = "subscribers" /\ n'.pc # "subscribers") =>
              /\ slot.marks = <<key(n)>>
              /\ slot.notified = <<>>
       /\ Len(slot'.notified) > Len(slot.notified) =>
              /\ n.pc = "notify"
              /\ slot.marks = <<key(n)>>
              /\ slot.listed = n.subs
       /\ (slot.result = "new" /\ slot'.result # "new") =>
              /\ n.pc = "notified"
              /\ slot.marks = <<slot.key>>
              /\ slot.notified = slot.listed
       /\ n'.totalChecks = n.totalChecks + 1 =>
              /\ n.pc = "check"
              /\ slot.result # "new"]_vars

\* the second subscriber is about to be notified of the second entry of the
\* response, which has been marked
C27_Witness ==
    /\ n.pc = "notify"
    /\ n.ti = 2
    /\ n.ci = 2
    /\ Len(slot.notified) = 1
    /\ slot.marks = <<key(n)>>
    /\ slot.markOK

\* C28: within a tick the services are taken one at a time in the order of
\* Options.ServiceIDs, and the staff members, dates and timeslots of a
\* service in the order of the responses; the loop never goes back to an
\* earlier element, every call is made for the element the loop is at, and
\* one execution of checkAndNotify at most is in progress.
C28_SequentialSweep ==
    [][/\ inFlight' <= 1
       /\ (n.pc = "select" /\ n'.pc \notin {"select", "returned"}) =>
              n'.pc = "staff" /\ n'.si = 1
       /\ (n.pc # "select" /\ n'.pc \notin {"select", "returned", "clean"}) =>
              /\ n'.si \in {n.si, n.si + 1}
              /\ n'.si = n.si + 1 => n'.pc = "staff"
              /\ n'.si = n.si =>
                     /\ n.staffIDs # <<>> => n'.staffIDs = n.staffIDs
                     /\ n'.sj \in {n.sj, n.sj + 1}
                     /\ n'.sj = n.sj + 1 => n'.pc = "dates"
                     /\ n'.sj = n.sj =>
                            /\ n.dates # <<>> => n'.dates = n.dates
                            /\ n'.di \in {n.di, n.di + 1}
                            /\ n'.di = n.di + 1 => n'.pc = "timeslots"
                            /\ n'.di = n.di =>
                                   /\ n.times # <<>> => n'.times = n.times
                                   /\ n'.ti \in {n.ti, n.ti + 1}
                                   /\ n'.ti = n.ti + 1 => n'.pc = "check"
       /\ sweep'.staffCalls = sweep.staffCalls + 1 =>
              /\ n.pc = "staff"
              /\ sweep.staffCalls = n.si - 1
       /\ n'.totalChecks = n.totalChecks + 1 =>
              slot'.key = buildKey(opts.ServiceIDs[n.si], n.staffIDs[n.sj],
                                   n.times[n.ti])
       /\ Len(slot'.marks) > Len(slot.marks) =>
              slot'.marks = <<buildKey(opts.ServiceIDs[n.si],
                                       n.staffIDs[n.sj], n.times[n.ti])>>]_vars

\* the loop is at the second date of the second staff member of the second
\* service and notifies the subscriber
C28_Witness ==
    /\ n.pc = "notify"
    /\ n.si = 2
    /\ n.sj = 2
    /\ n.di = 2
    /\ sweep.staffCalls = 2
    /\ slot.key = buildKey(200, 42, "2025-06-01T10:00:00+03:00")

\* C29: when a tick that was not skipped reaches its end, total_checks is the
\* number of timeslot entries the successful GetBookableTimeslots calls of
\* the tick returned, new_slots_found is the number of those entries that
\* IsSlotSeen reported as not seen, which is the number of broadcasts made,
\* and new_slots_found is never more than total_checks.
C29_TickCounters ==
    /\ n.newSlotsFound <= n.totalChecks
    /\ n.pc = "clean" =>
           /\ n.totalChecks = sweep.entries
           /\ n.newSlotsFound = sweep.notSeen
           /\ n.newSlotsFound = sweep.broadcasts

\* a tick ends after two entries, one of them new, with a MarkSlotSeen that
\* failed
C29_Witness ==
    /\ n.pc = "clean"
    /\ n.totalChecks = 2
    /\ n.newSlotsFound = 1
    /\ "mark" \in sweep.storeFailures

(***************************************************************************)
(* Properties of the Authorization header.                                 *)
(***************************************************************************)
\* C30: every listing request that is sent carries the partner credential
\* and a non-empty session token, never the partner credential alone; in
\* every state of the client a stored expiry in the future goes with a
\* non-empty stored token.
C30_AuthorizationHeader ==
    /\ tokenExp # 0 => userToken # ""
    /\ clock < tokenExp => userToken # ""
    /\ \A g \in Goroutines :
           call[g].sentAt # -1 =>
               /\ call[g].token # ""
               /\ call[g].header =
                      "Bearer " \o PartnerToken \o ", User " \o call[g].token
               /\ call[g].header # "Bearer " \o PartnerToken

\* a request is on its way with the second token of the provider, sent after
\* the first one expired
C30_Witness ==
    \E g \in Goroutines :
        /\ call[g].pc = "wait"
        /\ call[g].logins = 1
        /\ call[g].token = Token(2)
        /\ call[g].header = "Bearer partner, User user2"

(***************************************************************************)
(* Properties of a failed login.                                           *)
(***************************************************************************)
\* C31: a login that fails (transport error, a status other than 201, a body
\* that does not parse, success false or no user_token) leaves the stored
\* token and the stored expiry as they were, and the call returns an error
\* without sending the listing request; the expiry check still fails after
\* it and keeps failing until a login succeeds, so the next call that enters
\* authenticate sends the login request again.
C31_FailedLogin ==
    [][\A g \in Goroutines :
          /\ (call[g].pc = "login" /\ call'[g].pc # "login"
                                   /\ call'[g].auth # "ok") =>
                 /\ UNCHANGED <<userToken, tokenExp>>
                 /\ call'[g].pc = "done"
                 /\ call'[g].result = "err"
                 /\ call'[g].requests = 0
                 /\ call'[g].sentAt = -1
                 /\ ~(clock' < tokenExp')
          /\ (~(clock < tokenExp) /\ tokenExp' = tokenExp) =>
                 ~(clock' < tokenExp')
          /\ (call[g].pc = "lock" /\ call'[g].pc # "lock"
                                  /\ ~(clock < tokenExp)) =>
                 call'[g].pc = "login"
          /\ (call[g].pc = "done" /\ call[g].login = "failed") =>
                 call[g].requests = 0]_vars

\* a login has failed for an answer without a token while a token obtained
\* earlier is stored, and the other goroutine has entered authenticate after
\* it and sends the login request
C31_Witness ==
    \E g, h \in Goroutines :
        /\ call[g].pc = "done"
        /\ call[g].auth = "unsuccessful"
        /\ userToken = Token(1)
        /\ call[h].pc = "login"
        /\ call[h].lockAt >= call[g].lockAt

(***************************************************************************)
(* Properties of a failed MarkSlotSeen.                                    *)
(***************************************************************************)
\* C32 (as stated): a new slot whose MarkSlotSeen fails is counted and
\* broadcast to all subscribers, no row is stored for it, and every later
\* tick in which the slot is returned broadcasts it again until a
\* MarkSlotSeen for its key succeeds.
C32_FailedMarkAsStated ==
    [][/\ (n.pc = "mark" /\ n'.pc # "mark" /\ ~slot'.markOK) =>
              /\ seen_slots' = seen_slots
              /\ n'.newSlotsFound = n.newSlotsFound + 1
              /\ n'.pc = "subscribers"
       /\ (slot.result = "new" /\ ~slot.markOK /\ slot'.result # "new") =>
              /\ slot.notified = slot.listed
              /\ slot.listed = GetSubscribers(slot.table)
       /\ watch.unstored => ~IsSlotSeen(seen_slots, watch.key)
       /\ (n.pc = "check" /\ n'.pc # "check" /\ key(n) = watch.key
                          /\ watch.unstored) =>
              /\ slot'.result = "new"
              /\ n'.pc = "mark"]_vars

\* C32 (amended): as above, where the broadcast goes to the subscribers that
\* Subscribers() returns (nobody when the list cannot be read), and a later
\* tick broadcasts the slot again when IsSlotSeen answers for its key; a
\* tick in which IsSlotSeen fails for the key skips the slot.
C32_FailedMark ==
    [][/\ (n.pc = "mark" /\ n'.pc # "mark" /\ ~slot'.markOK) =>
              /\ seen_slots' = seen_slots
              /\ n'.newSlotsFound = n.newSlotsFound + 1
              /\ n'.pc = "subscribers"
       /\ (slot.result = "new" /\ ~slot.markOK /\ slot'.result # "new") =>
              /\ slot.notified = slot.listed
              /\ slot.listed = IF slot.lookupOK
                               THEN GetSubscribers(slot.table) ELSE <<>>
       /\ watch.unstored => ~IsSlotSeen(seen_slots, watch.key)
       /\ (n.pc = "check" /\ n'.pc # "check" /\ key(n) = watch.key
                          /\ watch.unstored) =>
              IF slot'.result = "err"
              THEN n'.pc # "mark" /\ n'.newSlotsFound = n.newSlotsFound
              ELSE slot'.result = "new" /\ n'.pc = "mark"]_vars

\* the slot whose MarkSlotSeen failed in the tick before is broadcast again:
\* the subscriber is being notified of it and no row has been stored
C32_Witness ==
    /\ n.pc = "notify"
    /\ key(n) = watch.key
    /\ watch.prev = "failed"
    /\ watch.unstored
    /\ watch.markedAt = -1
    /\ ~slot.markOK
    /\ slot.listed = <<1>>

C34_VerbatimKey ==
    /\ buildKey(100, 42, "2025-06-01T10:00:00+03:00")
           # buildKey(100, 42, "10:00")
    /\ ~IsSlotSeen({[slot_key |-> buildKey(100, 42,
                                           "2025-06-01T10:00:00+03:00"),
                     created_at |-> 0]},
                   buildKey(100, 42, "10:00"))
    /\ InEntry =>
           slot.key = "svc=100|staff=42|dt=" \o n.times[n.ti]
    /\ (n.pc = "clean" /\ sweep.prev = "none" /\ sweep.entries = 2
                       /\ "seen" \notin sweep.storeFailures) =>
           /\ n.newSlotsFound = 2
           /\ sweep.broadcasts = 2

\* the first tick has sent both forms of the slot to the subscribers and has
\* stored a row for each
C34_Witness ==
    /\ n.pc = "clean"
    /\ sweep.prev = "none"
    /\ sweep.broadcasts = 2
    /\ subscribers # {}
    /\ {r.slot_key : r \in seen_slots} =
           {buildKey(100, 42, "2025-06-01T10:00:00+03:00"),
            buildKey(100, 42, "10:00")}

(***************************************************************************)
(* Properties of the migration from the logs.                              *)
(***************************************************************************)
\* C35: the key the migration script stores for a "New slot found" entry is
\* buildKey(service_id, staff_id, time) of the entry, so a slot that was
\* migrated is not taken for new, and not broadcast, as long as its row is
\* within the retention window.
C35_MigrationKey ==
    probe.fn = "migrate" =>
        /\ \A e \in probe.log :
               Migrated(e) =>
                   MigrationKey(e) = buildKey(e.service_id, e.staff_id, e.time)
        /\ \A e \in probe.log :
               (Migrated(e) /\ now - e.timestamp.at <= Retention) =>
                   /\ IsSlotSeen(seen_slots,
                                 buildKey(e.service_id, e.staff_id, e.time))
                   /\ ~(InEntry /\ slot.key = buildKey(e.service_id,
                                                      e.staff_id, e.time))

\* the slot migrated with a timestamp six days old is returned by the
\* provider on the next day and is reported as seen
C35_Witness ==
    /\ probe.fn = "migrate"
    /\ NewSlotFound(100, 42, "2025-06-01T10:00:00+03:00", -6) \in probe.log
    /\ now = 1
    /\ slot.key = buildKey(100, 42, "2025-06-01T10:00:00+03:00")
    /\ slot.result = "seen"

(***************************************************************************)
(* Properties of the "current" command.                                    *)
(***************************************************************************)
\* C36: listing the current slots for a chat leaves the seen_slots table and
\* the subscriber table as they were, and a slot that was shown and has no
\* row is reported as not seen, and so broadcast, by the next lookup that
\* answers for its key.
C36_CurrentHasNoEffect ==
    [][/\ probe' # probe => UNCHANGED <<seen_slots, subscribers>>
       /\ (/\ n.pc = "check" /\ n'.pc # "check"
           /\ probe.fn = "current"
           /\ datetime(n) \in probe.shown
           /\ ~IsSlotSeen(seen_slots, key(n))
           /\ slot'.result # "err") =>
              /\ slot'.result = "new"
              /\ n'.pc = "mark"]_vars

\* the slot has been shown to a chat, has no row, and the first tick is
\* about to look it up
C36_Witness ==
    /\ probe.fn = "current"
    /\ n.pc = "check"
    /\ sweep.prev = "none"
    /\ datetime(n) \in probe.shown
    /\ ~IsSlotSeen(seen_slots, key(n))

(***************************************************************************)
(* Properties of func main.                                                *)
(***************************************************************************)
\* C37: with a service configured, the self-check of main is made once and
\* before anything is started: storage is open, a component runs or the loop
\* has left its first state only after a self-check that succeeded.  After a
\* failed self-check the process has exited with storage closed, no component
\* started, the loop never entered and nothing notified.  The end of the
\* process is a step of main: it leaves the notifier and the client as they
\* are.
C37_SelfCheckGate ==
    /\ [](main.selfCheck = "failed" =>
            /\ main.exit = "exit1"
            /\ ~main.storage
            /\ main.components = {}
            /\ n = Idle /\ tickerC = 0 /\ inFlight = 0
            /\ slot = NoSlot /\ sweep = NoSweep /\ seen_slots = {})
    /\ []((/\ Len(opts.ServiceIDs) > 0
           /\ \/ main.storage
              \/ main.components # {}
              \/ n # Idle
              \/ slot # NoSlot) => main.selfCheck = "ok")
    /\ [][/\ main'.selfCheck # main.selfCheck =>
               main.selfCheck = "none" /\ main.pc = "selfcheck"
          /\ main'.exit # main.exit =>
               /\ main.exit = "none"
               /\ main.pc \in {"load", "selfcheck", "storage", "bot",
                               "shutdown"}
               /\ UNCHANGED <<LoopVars, clientVars>>]_vars

\* C37 witness: a service is configured, the self-check has failed and the
\* process has exited
C37_Witness ==
    /\ Len(opts.ServiceIDs) > 0
    /\ main.selfCheck = "failed"
    /\ main.exit = "exit1"

\* C38: main returns only from its select after the root context is
\* cancelled, by the case of done only when the bot and the notifier have
\* both returned and by the case of the timeout only when the 5 seconds have
\* passed; and a main that waits with the root context cancelled always
\* returns, whether or not the components stop.
C38_BoundedShutdown ==
    /\ [](main.exit = "graceful" => ctxDone /\ Done(main, n))
    /\ [](main.exit = "forced" => ctxDone /\ main.timer = "fired")
    /\ [][main'.exit \in {"graceful", "forced"} /\ main.exit = "none" =>
             main.pc = "shutdown"]_vars
    /\ (ctxDone /\ main.pc \in {"wait", "shutdown"}) ~> (main.pc = "exited")

\* C38 witness: main has returned by the timeout while the bot has not
\* returned
C38_Witness ==
    /\ main.exit = "forced"
    /\ ~main.botReturned

(***************************************************************************)
(* Properties of the polling interval.                                     *)
(***************************************************************************)
\* C39: config.Load returns 60 seconds when CHECK_INTERVAL_SECONDS is
\* missing, is not a number or is not above zero; notifier.New returns 30
\* seconds for an interval that is not above zero and the interval itself
\* otherwise; the period of the ticker that Run creates is the interval of
\* New and is above zero.
C39_PositiveInterval ==
    probe.fn = "interval" =>
        LET s == TrimSpace(probe.env)
        IN  /\ (/\ probe.at # "env"
                /\ \/ s = <<>>
                   \/ Atoi(s).err
                   \/ Atoi(s).val <= 0) => probe.cfg = 60 * Second
            /\ probe.at \in {"new", "run"} =>
                 /\ probe.opts > 0
                 /\ probe.cfg <= 0 => probe.opts = 30 * Second
                 /\ probe.cfg > 0 => probe.opts = probe.cfg
            /\ probe.at = "run" =>
                 probe.ticker = probe.opts /\ probe.ticker > 0

\* C39 witness: config.Load returned an interval that is not above zero, and
\* the ticker of Run has a period of 30 seconds
C39_Witness ==
    /\ probe.fn = "interval"
    /\ probe.at = "run"
    /\ probe.cfg <= 0
    /\ probe.ticker = 30 * Second

(***************************************************************************)
(* Properties of the bot.                                                  *)
(***************************************************************************)
\* C40: after any messages, a chat has a row in the subscribers table
\* exactly when its last subscribe or unsubscribe was a subscribe; no chat
\* has two rows; a subscribe from a chat that has a row, an unsubscribe from
\* a chat that has none, the current command, the booking button and
\* unknown input leave the table as it was.
C40_SubscriptionState ==
    probe.fn = "bot" =>
        /\ \A c \in Chats :
             (c \in Range(probe.rows)) <=> (probe.asked[c] = "subscribe")
        /\ subscribers = Range(probe.rows)
        /\ Cardinality(Range(probe.rows)) = Len(probe.rows)
        /\ probe.msg.chat \in Chats =>
             LET had == probe.msg.chat \in Range(probe.before)
                 asks == Asks(probe.msg.text)
             IN  (\/ asks = "none"
                  \/ asks = "subscribe" /\ had
                  \/ asks = "unsubscribe" /\ ~had) =>
                     probe.rows = probe.before

(***************************************************************************)
(* Properties of the store.                                                *)
(***************************************************************************)
\* C15: MarkSlotSeen for a key that is already in seen_slots returns no
\* error (unless the database fails) and leaves the table as it was, the
\* created_at of the row included; no call ever changes the created_at of a
\* row, and no key has two rows.
C15_MarkIdempotent ==
    [][ /\ (slot'.marks # <<>> /\ now' = now /\ slot'.errors = 0
            /\ IsSlotSeen(seen_slots, slot'.key)) =>
               (slot'.markOK /\ seen_slots' = seen_slots)
        /\ \A r \in seen_slots, q \in seen_slots' :
               r.slot_key = q.slot_key => r.created_at = q.created_at
        /\ \A r, q \in seen_slots' :
               r.slot_key = q.slot_key => r = q
      ]_vars

\* MarkSlotSeen has been called without error for a key whose row is 3 days
\* old
C15_Witness ==
    /\ slot.marks # <<>>
    /\ slot.markOK
    /\ \E r \in seen_slots : r.slot_key = slot.key /\ now - r.created_at = 3

====
